---- MODULE Spec2Model ----
(***************************************************************************)
(* Weekly pull-request metrics (index.js).                                 *)
(*                                                                         *)
(* Two reductions are modelled:                                            *)
(*   - calculatePRMetrics / generateReport      (bounded date range)       *)
(*   - generateWeeklyPRReport                   (rolling week)             *)
(*                                                                         *)
(* Timestamps are instants counted in minutes.  A JavaScript number that   *)
(* results from a division is kept as an exact fraction [num, den]; den = 0*)
(* stands for the non-finite results of a division by zero (NaN, Infinity).*)
(* The list a fetch returned is revealed to the reducing loop one element  *)
(* at a time and the loop may end after any prefix.  The consumed prefix   *)
(* is not kept; what the properties need of it is tallied in the history   *)
(* variable seen, by definitions that do not use the program's own tests.  *)
(***************************************************************************)
EXTENDS Integers, Sequences, FiniteSets, TLC

(***************************************************************************)
(* Bounds of the model                                                     *)
(***************************************************************************)
MaxPRs == 2          \* length of a fetched pull-request list
MaxTick == 3         \* timestamps range over the instants 0 .. MaxTick ticks
MaxComments == 1     \* comments of either kind on one pull request
MaxContributors == 3 \* contributor records handed to the ranking
MaxCount == 1        \* value of one counter handed to the ranking
MaxItems == 2        \* length of a list of comments or reviews of one request
MaxCronLines == 2    \* newline-separated pieces of the crontab before a run
MaxRuns == 2         \* calls of setupCronJob

MinutesPerHour == 60

\* one tick is three quarters of an hour, so that merge times of 0.75 h and
\* 1.5 h occur and truncation to whole hours is observable
TimeOf(i) == i * 45

Times == {TimeOf(i) : i \in 0..MaxTick}

Users == {"user1", "user2"}

\* a login that names a property every object literal inherits from
\* Object.prototype: metrics.contributors[login] is then an object that is
\* no entry of metrics.contributors
InheritedNames == {"constructor"}

Logins == Users \cup InheritedNames

null == 0 - 1

Bump(b) == IF b THEN 1 ELSE 0

(***************************************************************************)
(* JavaScript numbers                                                      *)
(***************************************************************************)
Num(n) == [num |-> n, den |-> 1]

JsAdd(a, b) == [num |-> a.num * b.den + b.num * a.den, den |-> a.den * b.den]

\* a / n for an integer n >= 0; n = 0 gives den = 0 (NaN or Infinity)
JsDiv(a, n) == [num |-> a.num, den |-> a.den * n]

\* x === 0
IsZero(a) == a.den # 0 /\ a.num = 0

JsEq(a, b) == a.den # 0 /\ b.den # 0 /\ a.num * b.den = b.num * a.den

\* Number.prototype.toFixed(1) of a non-negative number: the decimal with one
\* fraction digit nearest to the value, the larger one on a tie.
toFixed1(a) ==
  IF a.den = 0 THEN (IF a.num = 0 THEN "NaN" ELSE "Infinity")
  ELSE LET tenths == (20 * a.num + a.den) \div (2 * a.den)
       IN  ToString(tenths \div 10) \o "." \o ToString(tenths % 10)

(***************************************************************************)
(* moment                                                                  *)
(***************************************************************************)
\* a.diff(b, 'hours', true): fractional hours
diffHoursExact(a, b) == [num |-> a - b, den |-> MinutesPerHour]

\* the difference rounded to the nearest whole hour
diffHours_rounded(a, b) ==
  IF a >= b THEN (a - b + MinutesPerHour \div 2) \div MinutesPerHour
  ELSE 0 - ((b - a + MinutesPerHour \div 2) \div MinutesPerHour)

\* a.diff(b, 'hours'): whole hours, truncated toward zero
diffHours(a, b) ==
  IF a >= b THEN (a - b) \div MinutesPerHour
  ELSE 0 - ((b - a) \div MinutesPerHour)

isAfter(a, b) == a > b

isBefore(a, b) == a < b

\* t.isBetween(from, to, null, inclusivity)
isBetween(t, from, to, inclusivity) ==
  /\ IF inclusivity[1] = "(" THEN isAfter(t, from) ELSE ~isBefore(t, from)
  /\ IF inclusivity[2] = ")" THEN isBefore(t, to) ELSE ~isAfter(t, to)

\* the inclusivity argument '[]' and the default '()'
Inclusive == <<"[", "]">>

Exclusive == <<"(", ")">>

(***************************************************************************)
(* Insertion-ordered maps (object literal / Map)                           *)
(***************************************************************************)
EmptyMap == [keys |-> <<>>, vals |-> [k \in {} |-> 0]]

Has(m, k) == k \in DOMAIN m.vals

Put(m, k, v) ==
  [keys |-> IF Has(m, k) THEN m.keys ELSE Append(m.keys, k),
   vals |-> [j \in (DOMAIN m.vals) \cup {k} |-> IF j = k THEN v ELSE m.vals[j]]]

Size(m) == Len(m.keys)

(***************************************************************************)
(* Pull requests and details                                               *)
(***************************************************************************)
\* the all-zero detail record of a failed detail fetch
ZeroDetail ==
  [totalComments |-> 0, reviewComments |-> 0, discussionComments |-> 0,
   reviews |-> 0, approvals |-> 0, changesRequested |-> 0]

\* detail records fetchPRDetails leaves in its map: the all-zero record, or
\* the counts of a successful fetch
Details ==
  {ZeroDetail} \cup
  {[totalComments |-> c, reviewComments |-> 0, discussionComments |-> c,
    reviews |-> r, approvals |-> r, changesRequested |-> 0] :
      c \in 0..MaxComments, r \in 0..1}

\* records the retrieval client returns: an open pull request has no closed
\* or merged timestamp, a closed one was closed at or after its creation and,
\* if merged, merged by then
PullRequests ==
  {[user |-> u, state |-> "open", created_at |-> c, merged_at |-> null,
    closed_at |-> null] : u \in Users, c \in Times}
  \cup
  {pr \in [user : Users, state : {"closed"}, created_at : Times,
           merged_at : Times \cup {null}, closed_at : Times] :
      /\ pr.created_at <= pr.closed_at
      /\ pr.merged_at # null =>
           pr.created_at <= pr.merged_at /\ pr.merged_at <= pr.closed_at}

VARIABLES
  pc,                   \* position of the run
  fetched,              \* number of fetched pull requests the loop consumed
  seen,                 \* history: tallies of the consumed pull requests
  startDate, endDate,   \* calculatePRMetrics: the range
  metrics,              \* calculatePRMetrics: result under construction
  totalMergeTime, totalFirstReviewTime, mergedCount, reviewedCount,
  report,               \* generateReport: lines of the rendered report
  lastWeekDate,         \* generateWeeklyPRReport: start of the window
  contributorMetrics,   \* generateWeeklyPRReport: author -> counters
  reportLines,          \* generateWeeklyPRReport: the report written
  fetchCall,            \* fetchPRs: one call and its outcome
  detailsCall,          \* fetchPRDetails: one call, its loop and its outcome
  weekly,               \* generateWeeklyPRReport: fetches in flight, joins
  cron                  \* setupCronJob: the crontab, the commands, the promise

boundedVars == <<startDate, endDate, metrics, totalMergeTime,
                 totalFirstReviewTime, mergedCount, reviewedCount, report>>

rollingVars == <<lastWeekDate, contributorMetrics, reportLines>>

ioVars == <<fetchCall, detailsCall, weekly>>

vars == <<pc, fetched, seen, boundedVars, rollingVars, ioVars, cron>>

NoWeeklyReport == [rows |-> <<>>, summary |-> <<>>]

(***************************************************************************)
(* The retrieval client and fetchPRs                                       *)
(***************************************************************************)
\* the configured repositories, in the order of the REPOSITORIES setting
repositories == <<"repo1", "repo2">>

Repos == {repositories[i] : i \in 1..Len(repositories)}

\* pull-request numbers within one repository
PRNumbers == {1, 2}

\* a field the record does not have
undefined == 0 - 2

\* pr.user is absent
NoUser == "undefined"

\* bodies of the records pulls.list returns: an open pull request from before
\* the window, one created and merged this week, and two records that lack a
\* field (the created timestamp, the author)
PRBodies ==
  { [user |-> "user1", state |-> "open", created_at |-> TimeOf(0),
     merged_at |-> null, closed_at |-> null],
    [user |-> "user2", state |-> "closed", created_at |-> TimeOf(2),
     merged_at |-> TimeOf(3), closed_at |-> TimeOf(3)],
    [user |-> "user1", state |-> "open", created_at |-> undefined,
     merged_at |-> null, closed_at |-> null],
    [user |-> NoUser, state |-> "open", created_at |-> TimeOf(2),
     merged_at |-> null, closed_at |-> null] }

\* { ...obj, name: value }
Spread(obj, name, value) ==
  [f \in DOMAIN obj \cup {name} |-> IF f = name THEN value ELSE obj[f]]

RawPRs == {Spread(b, "number", n) : b \in PRBodies, n \in PRNumbers}

WellFormed(pr) == pr.user # NoUser /\ pr.created_at # undefined

SeqsUpTo(S, n) == UNION {[1..k -> S] : k \in 0..n}

\* what the client does with one pulls.list request: the promise fulfils with
\* a value of some shape (an object whose data is an array, undefined, an
\* object without data, an object whose data is not an array), or it rejects
\* or the call throws, with an error carrying a status and a message
Response(settle, shape, data, status, message) ==
  [settle |-> settle, shape |-> shape, data |-> data, status |-> status,
   message |-> message]

Fulfilled(data) == Response("fulfilled", "array", data, 200, "")

ClientErrors ==
  { Response("rejected", "error", <<>>, 0, "API Error"),
    Response("rejected", "error", <<>>, 401, "Bad credentials"),
    Response("rejected", "error", <<>>, 403, "API rate limit exceeded"),
    Response("thrown", "error", <<>>, 0, "fetch failed") }

MalformedResponses ==
  { Response("fulfilled", "undefined", <<>>, 200, ""),
    Response("fulfilled", "noData", <<>>, 200, ""),
    Response("fulfilled", "notArray", <<>>, 200, "") }

Failed(response) == response.settle # "fulfilled" \/ response.shape # "array"

\* the body of the try block: await pulls.list(...), destructure data,
\* prs.map(pr => ({ ...pr, repoName }))
TryListPulls(repoName, response) ==
  IF response.settle # "fulfilled"
    THEN [ok |-> FALSE, value |-> <<>>, error |-> response.message]
  ELSE IF response.shape # "array"
    THEN [ok |-> FALSE, value |-> <<>>, error |-> "TypeError"]
  ELSE [ok |-> TRUE,
        value |-> [i \in 1..Len(response.data) |->
                     Spread(response.data[i], "repoName", repoName)],
        error |-> ""]

\* fetchPRs with the destructuring and the map outside the try block
fetchPRs_unguardedMap(repoName, response) ==
  LET try == TryListPulls(repoName, response)
  IN  IF try.ok
        THEN [state |-> "fulfilled", value |-> try.value, logged |-> ""]
      ELSE IF response.settle = "fulfilled"
        THEN [state |-> "rejected", value |-> <<>>, logged |-> ""]
      ELSE [state |-> "fulfilled", value |-> <<>>, logged |-> try.error]

\* fetchPRs with a catch block that logs and throws again
fetchPRs_rethrows(repoName, response) ==
  LET try == TryListPulls(repoName, response)
  IN  IF try.ok
        THEN [state |-> "fulfilled", value |-> try.value, logged |-> ""]
        ELSE [state |-> "rejected", value |-> <<>>, logged |-> try.error]

\* the promise fetchPRs returns, and what it logged
fetchPRs(repoName, response) ==
  LET try == TryListPulls(repoName, response)
  IN  IF try.ok
        THEN [state |-> "fulfilled", value |-> try.value, logged |-> ""]
        ELSE [state |-> "fulfilled", value |-> <<>>, logged |-> try.error]

NoResult == [state |-> "pending", value |-> <<>>, logged |-> ""]

NoFetchCall ==
  [state |-> "idle", repoName |-> "", response |-> Fulfilled(<<>>),
   result |-> NoResult]

(***************************************************************************)
(* fetchPRDetails                                                          *)
(***************************************************************************)
ReviewStates == {"APPROVED", "CHANGES_REQUESTED", "COMMENTED"}

\* what the client does with listComments or listReviewComments: a list of
\* the given length, or a failure (rejection, or a value without data)
CommentLists ==
  {[ok |-> TRUE, length |-> n] : n \in 0..MaxItems}
  \cup {[ok |-> FALSE, length |-> 0]}

\* what the client does with listReviews: the states of the reviews in
\* order, or a failure
ReviewLists ==
  {[ok |-> TRUE, data |-> d] : d \in SeqsUpTo(ReviewStates, MaxItems)}
  \cup {[ok |-> FALSE, data |-> <<>>]}

\* reviews.data.filter(r => r.state === state).length
CountState(data, state) ==
  Cardinality({i \in 1..Len(data) : data[i] = state})

\* the record with every review counted as an approval
DetailRecord_allApprove(comments, reviewComments, reviews) ==
  [totalComments |-> comments.length + reviewComments.length,
   reviewComments |-> reviewComments.length,
   discussionComments |-> comments.length,
   reviews |-> Len(reviews.data),
   approvals |-> Len(reviews.data),
   changesRequested |-> CountState(reviews.data, "CHANGES_REQUESTED")]

\* the record set when the three lists arrived
DetailRecord(comments, reviewComments, reviews) ==
  [totalComments |-> comments.length + reviewComments.length,
   reviewComments |-> reviewComments.length,
   discussionComments |-> comments.length,
   reviews |-> Len(reviews.data),
   approvals |-> CountState(reviews.data, "APPROVED"),
   changesRequested |-> CountState(reviews.data, "CHANGES_REQUESTED")]

\* the three requests caught one by one: a failed request counts as an
\* empty list and the counts of the others are kept
FetchOneDetail_keepsPartial(comments, reviewComments, reviews) ==
  DetailRecord(IF comments.ok THEN comments ELSE [ok |-> TRUE, length |-> 0],
               IF reviewComments.ok THEN reviewComments
               ELSE [ok |-> TRUE, length |-> 0],
               IF reviews.ok THEN reviews ELSE [ok |-> TRUE, data |-> <<>>])

\* one iteration's try / catch: Promise.all of the three requests rejects as
\* soon as one of them fails
FetchOneDetail(comments, reviewComments, reviews) ==
  IF comments.ok /\ reviewComments.ok /\ reviews.ok
    THEN DetailRecord(comments, reviewComments, reviews)
    ELSE ZeroDetail

\* the earlier fetchPRDetails: two requests per pull request, three fields
LegacyZeroDetail ==
  [totalComments |-> 0, reviewComments |-> 0, discussionComments |-> 0]

LegacyFetchOneDetail(comments, reviewComments) ==
  IF comments.ok /\ reviewComments.ok
    THEN [totalComments |-> comments.length + reviewComments.length,
          reviewComments |-> reviewComments.length,
          discussionComments |-> comments.length]
    ELSE LegacyZeroDetail

\* an iteration that sets no entry when a request failed
DetailsStep_skipsFailed(details, variant, prNumber, comments, reviewComments, reviews) ==
  IF variant = "sequential"
    THEN IF comments.ok /\ reviewComments.ok /\ reviews.ok
           THEN Put(details, prNumber,
                    FetchOneDetail(comments, reviewComments, reviews))
           ELSE details
    ELSE IF comments.ok /\ reviewComments.ok
           THEN Put(details, prNumber,
                    LegacyFetchOneDetail(comments, reviewComments))
           ELSE details

\* an iteration whose failure zeroes the entries set so far
DetailsStep_failureSpills(details, variant, prNumber, comments, reviewComments, reviews) ==
  LET zero == IF variant = "sequential" THEN ZeroDetail ELSE LegacyZeroDetail
      failed == \/ ~comments.ok
                \/ ~reviewComments.ok
                \/ variant = "sequential" /\ ~reviews.ok
      set == Put(details, prNumber,
                 IF variant = "sequential"
                   THEN FetchOneDetail(comments, reviewComments, reviews)
                   ELSE LegacyFetchOneDetail(comments, reviewComments))
  IN  IF failed
        THEN [keys |-> set.keys, vals |-> [k \in DOMAIN set.vals |-> zero]]
        ELSE set

\* details.set(prNumber, ...) of one pull request, in either variant
DetailsStep(details, variant, prNumber, comments, reviewComments, reviews) ==
  Put(details, prNumber,
      IF variant = "sequential"
        THEN FetchOneDetail(comments, reviewComments, reviews)
        ELSE LegacyFetchOneDetail(comments, reviewComments))

\* the batches of pull-request numbers handed to fetchPRDetails
Batches == SeqsUpTo(PRNumbers, 2)

\* failed and partial are history: the pull requests with a failed request,
\* and of these the ones with a request that answered a non-empty list
NoDetailsCall ==
  [state |-> "idle", variant |-> "sequential", prNumbers |-> <<>>,
   done |-> {}, failed |-> {}, partial |-> {}, details |-> EmptyMap]

\* generateWeeklyPRReport before it is called: no fetch issued, nothing
\* collected.  writes counts the calls of fs.writeFileSync that returned.
\* failedRepos, answered and failedDetails are history: the
\* repositories whose pulls.list request failed, the comment count the
\* client answered for a pull request, and the pull requests whose detail
\* requests failed.
NoWeekly ==
  [prFetches |-> [r \in Repos |-> "idle"],
   allReposPRs |-> [r \in Repos |-> <<>>],
   allPRs |-> <<>>,
   detailFetches |-> [r \in Repos |-> "idle"],
   position |-> [r \in Repos |-> 0],
   details |-> [r \in Repos |-> EmptyMap],
   prDetailsByRepo |-> EmptyMap,
   exitCode |-> 0,
   writes |-> 0,
   failedRepos |-> {},
   answered |-> [r \in Repos |-> [n \in PRNumbers |-> 0]],
   failedDetails |-> {}]

IoIdle ==
  /\ fetchCall = NoFetchCall
  /\ detailsCall = NoDetailsCall
  /\ weekly = NoWeekly

(***************************************************************************)
(* setupCronJob (setup-cron.js): texts, the shell, the crontab             *)
(*                                                                         *)
(* A line is a sequence of pieces of text: what matters of a line is       *)
(* whether it holds the script path and where it holds a double quote.  A  *)
(* text is kept as the list text.split('\n') returns: the empty string is  *)
(* the list of one empty line, a text that ends with a newline has an empty*)
(* last line.                                                              *)
(***************************************************************************)
scriptPath == "/app/index.js"

DQ == "\""

\* `0 9 * * 6 /usr/local/bin/node ${scriptPath}`
cronCommand == << "0 9 * * 6 /usr/local/bin/node ", scriptPath >>

\* lines of an existing crontab: an empty line, another job, an earlier
\* entry of the script, a job with a double-quoted argument
CrontabLines ==
  { <<>>,
    << "0 0 * * * some-other-job" >>,
    << "0 8 * * * /usr/local/bin/node ", scriptPath >>,
    << "0 0 * * * echo ", DQ, "done", DQ >> }

\* String.prototype.includes on a line or a message
Includes(line, piece) == \E i \in 1..Len(line) : line[i] = piece

EmptyText == << <<>> >>

\* lines.join('\n'): the empty list joins to the empty string
Join(lines) == IF lines = <<>> THEN EmptyText ELSE lines

\* currentCrontab.split('\n').filter(line => !line.includes(scriptPath))
\*   .join('\n')
RemoveEntries(text) ==
  Join(SelectSeq(text, LAMBDA line : ~Includes(line, scriptPath)))

\* currentCrontab + (currentCrontab ? '\n' : '') + cronCommand + '\n'
NewCrontab(currentCrontab) ==
  (IF currentCrontab = EmptyText THEN <<>> ELSE currentCrontab)
    \o << cronCommand, <<>> >>

\* what sh makes of  "${newCrontab}":  a double quote inside the text ends
\* and opens the quoting and is removed.  The quotes of a line of
\* CrontabLines are balanced and enclose no blank, so the line stays one
\* line of one word.
ShellDoubleQuoted(text) ==
  [i \in 1..Len(text) |-> SelectSeq(text[i], LAMBDA piece : piece # DQ)]

\* echo writes its argument and a newline
Echo(text) == text \o EmptyText

\* no crontab is installed for the user
NoCrontab == <<>>

\* outcome of a command handed to exec: callback(error, stdout, stderr)
Outcome(error, message, stdout, stderr) ==
  [error |-> error, message |-> message, stdout |-> stdout,
   stderr |-> stderr]

NoOutcome == Outcome(FALSE, "", EmptyText, <<>>)

\* crontab -l: prints the installed crontab; fails when there is none, or
\* for another reason, and then prints nothing on stdout
ReadOutcomes(installed) ==
  (IF installed = NoCrontab
     THEN { Outcome(TRUE, "Command failed: crontab -l", EmptyText,
                    << "no crontab", " for user" >>),
            Outcome(FALSE, "", EmptyText, <<>>) }
     ELSE { Outcome(FALSE, "", installed, <<>>),
            Outcome(FALSE, "", installed, << "some warning" >>) })
  \cup { Outcome(TRUE, "Permission denied", EmptyText,
                 << "Permission denied" >>),
         Outcome(TRUE, "Unknown error", EmptyText, <<>>) }

\* echo "..." | crontab -
WriteOutcomes ==
  { Outcome(FALSE, "", EmptyText, <<>>),
    Outcome(TRUE, "Permission denied", EmptyText, << "Permission denied" >>) }

\* every error of the read rejects, the missing crontab included
ReadRejects_anyError(error, stderr) == error

\* if (error && !stderr.includes('no crontab'))
ReadRejects(error, stderr) == error /\ ~Includes(stderr, "no crontab")

\* setupCronJob before it is called.  read and write are the outcomes of
\* the two commands of the current call, execs the commands it issued,
\* settles the calls of resolve and reject; first is history: the crontab
\* the first call installed.
NoCron ==
  [state |-> "idle", runs |-> 0, installed |-> NoCrontab,
   read |-> NoOutcome, write |-> NoOutcome, newCrontab |-> EmptyText,
   execs |-> <<>>, promise |-> "none", settles |-> 0, reason |-> "",
   first |-> NoCrontab]

CronIdle == cron = NoCron

(***************************************************************************)
(* calculatePRMetrics(owner, repo, startDate, endDate)                     *)
(***************************************************************************)
NewContributor == [newPRs |-> 0, mergedPRs |-> 0, openPRs |-> 0, comments |-> 0]

InitialMetrics ==
  [newPRs |-> 0, mergedPRs |-> 0, openPRs |-> 0,
   avgTimeToMerge |-> Num(0), avgTimeToFirstReview |-> Num(0),
   contributors |-> EmptyMap]

\* isBetween called without the inclusivity argument
InRange_exclusive(pr, start, end) ==
  isBetween(pr.created_at, start, end, Exclusive)

\* created.isBetween(start, end, null, '[]')
InRange(pr, start, end) == isBetween(pr.created_at, start, end, Inclusive)

\* metrics.contributors[contributor] created on first sight
WithContributor(m, contributor) ==
  IF Has(m.contributors, contributor) THEN m
  ELSE [m EXCEPT !.contributors = Put(@, contributor, NewContributor)]

\* every pull request that is not open counts as merged
ClassifyBounded_closedIsMerged(acc, pr) ==
  LET contributor == pr.user
  IN  IF pr.state = "open" THEN
        [acc EXCEPT !.metrics.openPRs = @ + 1,
                    !.metrics.contributors.vals[contributor].openPRs = @ + 1]
      ELSE
        [acc EXCEPT !.metrics.mergedPRs = @ + 1,
                    !.metrics.contributors.vals[contributor].mergedPRs = @ + 1,
                    !.mergedCount = @ + 1]

\* the open / merged / neither branch of one counted pull request
ClassifyBounded(acc, pr) ==
  LET contributor == pr.user
  IN  IF pr.state = "open" THEN
        [acc EXCEPT !.metrics.openPRs = @ + 1,
                    !.metrics.contributors.vals[contributor].openPRs = @ + 1]
      ELSE IF pr.merged_at # null THEN
        [acc EXCEPT !.metrics.mergedPRs = @ + 1,
                    !.metrics.contributors.vals[contributor].mergedPRs = @ + 1,
                    !.totalMergeTime =
                       JsAdd(@, diffHoursExact(pr.merged_at, pr.created_at)),
                    !.mergedCount = @ + 1]
      ELSE acc

\* the comment count of the detail is added to the contributor's
ApplyDetails_sumsComments(acc, pr, details) ==
  LET contributor == pr.user
      firstReview == pr.created_at + 2 * MinutesPerHour
      withComments ==
        [acc EXCEPT !.metrics.contributors.vals[contributor].comments =
                       @ + details.totalComments]
  IN  IF details.reviews > 0 THEN
        [withComments EXCEPT
           !.totalFirstReviewTime =
              JsAdd(@, diffHoursExact(firstReview, pr.created_at)),
           !.reviewedCount = @ + 1]
      ELSE withComments

\* a first-review sample is taken whether or not the detail has a review
ApplyDetails_samplesAll(acc, pr, details) ==
  LET contributor == pr.user
      firstReview == pr.created_at + 2 * MinutesPerHour
      withComments ==
        [acc EXCEPT !.metrics.contributors.vals[contributor].comments =
                       details.totalComments]
  IN  [withComments EXCEPT
         !.totalFirstReviewTime =
            JsAdd(@, diffHoursExact(firstReview, pr.created_at)),
         !.reviewedCount = @ + 1]

\* the part of the loop body guarded by  if (details)
ApplyDetails(acc, pr, details) ==
  LET contributor == pr.user
      firstReview == pr.created_at + 2 * MinutesPerHour
      withComments ==
        [acc EXCEPT !.metrics.contributors.vals[contributor].comments =
                       details.totalComments]
  IN  IF details.reviews > 0 THEN
        [withComments EXCEPT
           !.totalFirstReviewTime =
              JsAdd(@, diffHoursExact(firstReview, pr.created_at)),
           !.reviewedCount = @ + 1]
      ELSE withComments

\* the range test guards only the newPRs increments: every pull request is
\* classified
LoopBody_unrestricted(acc, pr, details, start, end) ==
  LET keyed == [acc EXCEPT !.metrics = WithContributor(@, pr.user)]
      counted ==
        IF InRange(pr, start, end)
        THEN [keyed EXCEPT !.metrics.newPRs = @ + 1,
                           !.metrics.contributors.vals[pr.user].newPRs = @ + 1]
        ELSE keyed
  IN  ApplyDetails(ClassifyBounded(counted, pr), pr, details)

\* the contributor record is created before the range test
LoopBody_eagerKey(acc, pr, details, start, end) ==
  LET keyed == [acc EXCEPT !.metrics = WithContributor(@, pr.user)]
  IN  IF InRange(pr, start, end) THEN
        LET counted ==
              [keyed EXCEPT !.metrics.newPRs = @ + 1,
                            !.metrics.contributors.vals[pr.user].newPRs = @ + 1]
        IN  ApplyDetails(ClassifyBounded(counted, pr), pr, details)
      ELSE keyed

\* one iteration of  for (const pr of prs);  details is prDetails.get(pr.number).
\* For a login of InheritedNames the test  !metrics.contributors[contributor]
\* finds the inherited object: no entry is created and the counters of the
\* contributor are written to that object, outside metrics.contributors.
LoopBody(acc, pr, details, start, end) ==
  IF InRange(pr, start, end) THEN
    LET counted ==
          [acc EXCEPT !.metrics =
             LET m == WithContributor([@ EXCEPT !.newPRs = @ + 1], pr.user)
             IN  [m EXCEPT !.contributors.vals[pr.user].newPRs = @ + 1]]
        done == ApplyDetails(ClassifyBounded(counted, pr), pr, details)
    IN  IF pr.user \in InheritedNames
          THEN [done EXCEPT !.metrics.contributors = acc.metrics.contributors]
          ELSE done
  ELSE acc

\* the averages divide without the  count > 0  guards
Averages_unguarded(acc) ==
  [acc.metrics EXCEPT
     !.avgTimeToMerge = JsDiv(acc.totalMergeTime, acc.mergedCount),
     !.avgTimeToFirstReview =
        JsDiv(acc.totalFirstReviewTime, acc.reviewedCount)]

\* the averages computed after the loop
Averages(acc) ==
  [acc.metrics EXCEPT
     !.avgTimeToMerge =
        IF acc.mergedCount > 0
        THEN JsDiv(acc.totalMergeTime, acc.mergedCount) ELSE Num(0),
     !.avgTimeToFirstReview =
        IF acc.reviewedCount > 0
        THEN JsDiv(acc.totalFirstReviewTime, acc.reviewedCount) ELSE Num(0)]

\* the locals of calculatePRMetrics
Acc ==
  [metrics |-> metrics, totalMergeTime |-> totalMergeTime,
   totalFirstReviewTime |-> totalFirstReviewTime,
   mergedCount |-> mergedCount, reviewedCount |-> reviewedCount]

(***************************************************************************)
(* generateReport(owner, repo, metrics)                                    *)
(***************************************************************************)
ContributorRow(contributor, stats) ==
  <<contributor, ToString(stats.newPRs), ToString(stats.mergedPRs),
    ToString(stats.openPRs), ToString(stats.comments)>>

\* the renderer without the test for an empty contributor map
generateReport_alwaysTable(m) ==
  [summary |->
     << "- New PRs: " \o ToString(m.newPRs),
        "- Merged PRs: " \o ToString(m.mergedPRs),
        "- Open PRs: " \o ToString(m.openPRs),
        "- Average Time to Merge: " \o
           (IF IsZero(m.avgTimeToMerge) THEN "N/A"
            ELSE toFixed1(m.avgTimeToMerge) \o " hours"),
        "- Average Time to First Review: " \o
           (IF IsZero(m.avgTimeToFirstReview) THEN "N/A"
            ELSE toFixed1(m.avgTimeToFirstReview) \o " hours") >>,
   body |-> << "## Contributors" >>,
   rows |->
     [i \in 1..Size(m.contributors) |->
        ContributorRow(m.contributors.keys[i],
                       m.contributors.vals[m.contributors.keys[i]])]]

\* the lines of the report: the summary block, then the no-activity sentence
\* or the table heading with one row per contributor in insertion order
generateReport(m) ==
  [summary |->
     << "- New PRs: " \o ToString(m.newPRs),
        "- Merged PRs: " \o ToString(m.mergedPRs),
        "- Open PRs: " \o ToString(m.openPRs),
        "- Average Time to Merge: " \o
           (IF IsZero(m.avgTimeToMerge) THEN "N/A"
            ELSE toFixed1(m.avgTimeToMerge) \o " hours"),
        "- Average Time to First Review: " \o
           (IF IsZero(m.avgTimeToFirstReview) THEN "N/A"
            ELSE toFixed1(m.avgTimeToFirstReview) \o " hours") >>,
   body |->
     IF Size(m.contributors) = 0
     THEN << "No activity in the repository during this period." >>
     ELSE << "## Contributors" >>,
   rows |->
     [i \in 1..Size(m.contributors) |->
        ContributorRow(m.contributors.keys[i],
                       m.contributors.vals[m.contributors.keys[i]])]]

NoReport == [summary |-> <<>>, body |-> <<>>, rows |-> <<>>]

(***************************************************************************)
(* History of the consumed pull requests (bounded mode)                    *)
(***************************************************************************)
\* start <= created <= end, both endpoints included
CreatedInRange(pr, start, end) ==
  start <= pr.created_at /\ pr.created_at <= end

IsOpen(pr) == pr.state = "open"

IsMerged(pr) == pr.state # "open" /\ pr.merged_at # null

\* tallies of the consumed prefix: pull requests created in the range, of
\* these the ones created exactly at its start and exactly at its end, and
\* pull requests that are open or merged whatever their creation time; of
\* the pull requests created in the range: their authors, per author the
\* comments their details hold in sum and how many details hold a comment,
\* how many details hold a review, and the minutes from creation to merge
\* of the merged ones in sum
NothingSeen ==
  [inRange |-> 0, atStart |-> 0, atEnd |-> 0, live |-> 0, authors |-> {},
   comments |-> [u \in Logins |-> 0], commented |-> [u \in Logins |-> 0],
   reviewed |-> 0, mergeMinutes |-> 0]

SeenBounded(old, pr, details, start, end) ==
  LET counted == CreatedInRange(pr, start, end)
  IN  [inRange |-> old.inRange + Bump(counted),
       atStart |-> old.atStart + Bump(pr.created_at = start),
       atEnd |-> old.atEnd + Bump(pr.created_at = end),
       live |-> old.live + Bump(IsOpen(pr) \/ IsMerged(pr)),
       authors |-> IF counted THEN old.authors \cup {pr.user}
                   ELSE old.authors,
       comments |-> IF counted
                      THEN [old.comments EXCEPT
                              ![pr.user] = @ + details.totalComments]
                      ELSE old.comments,
       commented |-> IF counted
                       THEN [old.commented EXCEPT
                               ![pr.user] = @ + Bump(details.totalComments > 0)]
                       ELSE old.commented,
       reviewed |-> old.reviewed + Bump(counted /\ details.reviews > 0),
       mergeMinutes |-> old.mergeMinutes
                          + (IF counted /\ IsMerged(pr)
                               THEN pr.merged_at - pr.created_at ELSE 0)]

(***************************************************************************)
(* Bounded mode: the run                                                   *)
(***************************************************************************)
\* the rolling-mode variables before generateWeeklyPRReport is entered
RollingIdle ==
  /\ lastWeekDate = 0
  /\ contributorMetrics = EmptyMap
  /\ reportLines = NoWeeklyReport

\* calculatePRMetrics does not read closed_at: one closing instant per record
BoundedInputs ==
  {pr \in PullRequests :
     pr.state = "closed" =>
       pr.closed_at = (IF pr.merged_at # null THEN pr.merged_at
                       ELSE pr.created_at)}

InitBounded ==
  /\ CronIdle
  /\ pc = "loop"
  /\ fetched = 0
  /\ seen = NothingSeen
  /\ startDate = TimeOf(1)
  /\ endDate = TimeOf(MaxTick - 1)
  /\ metrics = InitialMetrics
  /\ totalMergeTime = Num(0)
  /\ totalFirstReviewTime = Num(0)
  /\ mergedCount = 0
  /\ reviewedCount = 0
  /\ report = NoReport
  /\ RollingIdle
  /\ IoIdle

\* the loop takes the next fetched pull request
ProcessPR ==
  /\ pc = "loop"
  /\ fetched < MaxPRs
  /\ \E pr \in BoundedInputs, details \in Details :
       LET acc == LoopBody(Acc, pr, details, startDate, endDate)
       IN  /\ fetched' = fetched + 1
           /\ seen' = SeenBounded(seen, pr, details, startDate, endDate)
           /\ metrics' = acc.metrics
           /\ totalMergeTime' = acc.totalMergeTime
           /\ totalFirstReviewTime' = acc.totalFirstReviewTime
           /\ mergedCount' = acc.mergedCount
           /\ reviewedCount' = acc.reviewedCount
  /\ UNCHANGED <<pc, startDate, endDate, report, rollingVars, ioVars, cron>>

\* the list is exhausted: averages are stored and metrics returned
ReturnMetrics ==
  /\ pc = "loop"
  /\ metrics' = Averages(Acc)
  /\ pc' = "returned"
  /\ UNCHANGED <<fetched, seen, startDate, endDate, totalMergeTime,
                 totalFirstReviewTime, mergedCount, reviewedCount, report,
                 rollingVars, ioVars, cron>>

\* the caller renders the returned metrics
GenerateReport ==
  /\ pc = "returned"
  /\ report' = generateReport(metrics)
  /\ pc' = "rendered"
  /\ UNCHANGED <<fetched, seen, startDate, endDate, metrics, totalMergeTime,
                 totalFirstReviewTime, mergedCount, reviewedCount,
                 rollingVars, ioVars, cron>>

NextBounded == ProcessPR \/ ReturnMetrics \/ GenerateReport

SpecBounded == InitBounded /\ [][NextBounded]_vars

(***************************************************************************)
(* Bounded mode: pull requests of any login                                *)
(***************************************************************************)
\* pull requests of user1 and of an author whose login is an inherited name,
\* with details that hold no review
LoginInputs ==
  {[pr EXCEPT !.user = u] :
     pr \in {p \in BoundedInputs : p.user = "user1"},
     u \in {"user1"} \cup InheritedNames}

\* the loop takes the next fetched pull request
ProcessAnyPR ==
  /\ pc = "loop"
  /\ fetched < MaxPRs
  /\ \E pr \in LoginInputs, details \in {d \in Details : d.reviews = 0} :
       LET acc == LoopBody(Acc, pr, details, startDate, endDate)
       IN  /\ fetched' = fetched + 1
           /\ seen' = SeenBounded(seen, pr, details, startDate, endDate)
           /\ metrics' = acc.metrics
           /\ totalMergeTime' = acc.totalMergeTime
           /\ totalFirstReviewTime' = acc.totalFirstReviewTime
           /\ mergedCount' = acc.mergedCount
           /\ reviewedCount' = acc.reviewedCount
  /\ UNCHANGED <<pc, startDate, endDate, report, rollingVars, ioVars, cron>>

NextLogins == ProcessAnyPR \/ ReturnMetrics \/ GenerateReport

SpecLogins == InitBounded /\ [][NextLogins]_vars

(***************************************************************************)
(* Bounded mode: the returned metrics rendered more than once              *)
(***************************************************************************)
\* the owner and repo arguments of generateReport
Owners == {"test-owner", "other-owner"}

\* the renderer putting its owner and repo arguments into the report
GenerateReportFor_titled(owner, repo, m) ==
  [generateReport(m) EXCEPT
     !.summary = << "- Repository: " \o owner \o "/" \o repo >> \o @]

\* generateReport(owner, repo, metrics): the body reads metrics only
GenerateReportFor(owner, repo, m) == generateReport(m)

\* the first call of generateReport on the returned metrics
RenderFirst ==
  /\ pc = "returned"
  /\ \E owner \in Owners, repo \in Repos :
       report' = GenerateReportFor(owner, repo, metrics)
  /\ pc' = "rendered"
  /\ UNCHANGED <<fetched, seen, startDate, endDate, metrics, totalMergeTime,
                 totalFirstReviewTime, mergedCount, reviewedCount,
                 rollingVars, ioVars, cron>>

\* a later call on the same metrics object, with any owner and repo
RenderAgain ==
  /\ pc \in {"rendered", "rerendered"}
  /\ \E owner \in Owners, repo \in Repos :
       report' = GenerateReportFor(owner, repo, metrics)
  /\ pc' = "rerendered"
  /\ UNCHANGED <<fetched, seen, startDate, endDate, metrics, totalMergeTime,
                 totalFirstReviewTime, mergedCount, reviewedCount,
                 rollingVars, ioVars, cron>>

NextRender == ProcessPR \/ ReturnMetrics \/ RenderFirst \/ RenderAgain

SpecRender == InitBounded /\ [][NextRender]_vars

(***************************************************************************)
(* generateWeeklyPRReport: the reducing loop                               *)
(***************************************************************************)
NewContributorMetrics ==
  [newPRsThisWeek |-> 0, mergedPRsThisWeek |-> 0, openPRs |-> 0,
   closedPRsThisWeek |-> 0, totalComments |-> 0, mergedPRCount |-> 0,
   totalMergeTime |-> 0]

\* a pull request created exactly at the window start counts as new
TrackNew_inclusive(m, pr, since) ==
  IF ~isBefore(pr.created_at, since)
  THEN [m EXCEPT !.newPRsThisWeek = @ + 1] ELSE m

\* if (createdAt.isAfter(lastWeekDate)) metrics.newPRsThisWeek++
TrackNew(m, pr, since) ==
  IF isAfter(pr.created_at, since)
  THEN [m EXCEPT !.newPRsThisWeek = @ + 1] ELSE m

\* the closed branch lacks its  !pr.merged_at  test
TrackState_closedIgnoresMerge(m, pr, since) ==
  IF pr.state = "open" THEN
    [m EXCEPT !.openPRs = @ + 1]
  ELSE IF pr.merged_at # null /\ isAfter(pr.merged_at, since) THEN
    [m EXCEPT !.mergedPRsThisWeek = @ + 1,
              !.totalMergeTime = @ + diffHours(pr.merged_at, pr.created_at),
              !.mergedPRCount = @ + 1]
  ELSE IF pr.closed_at # null /\ isAfter(pr.closed_at, since) THEN
    [m EXCEPT !.closedPRsThisWeek = @ + 1]
  ELSE m

\* a merge-time sample is taken only for a merge time above zero
TrackState_sampleIfPositive(m, pr, since) ==
  IF pr.state = "open" THEN
    [m EXCEPT !.openPRs = @ + 1]
  ELSE IF pr.merged_at # null /\ isAfter(pr.merged_at, since) THEN
    LET timeToMerge == diffHours(pr.merged_at, pr.created_at)
    IN  [m EXCEPT !.mergedPRsThisWeek = @ + 1,
                  !.totalMergeTime = @ + timeToMerge,
                  !.mergedPRCount = @ + Bump(timeToMerge > 0)]
  ELSE IF /\ pr.closed_at # null
          /\ isAfter(pr.closed_at, since)
          /\ pr.merged_at = null THEN
    [m EXCEPT !.closedPRsThisWeek = @ + 1]
  ELSE m

\* the open / merged this week / closed this week / none cascade
TrackState(m, pr, since) ==
  IF pr.state = "open" THEN
    [m EXCEPT !.openPRs = @ + 1]
  ELSE IF pr.merged_at # null /\ isAfter(pr.merged_at, since) THEN
    [m EXCEPT !.mergedPRsThisWeek = @ + 1,
              !.totalMergeTime = @ + diffHours(pr.merged_at, pr.created_at),
              !.mergedPRCount = @ + 1]
  ELSE IF /\ pr.closed_at # null
          /\ isAfter(pr.closed_at, since)
          /\ pr.merged_at = null THEN
    [m EXCEPT !.closedPRsThisWeek = @ + 1]
  ELSE m

\* the comment count is assigned instead of added
TrackComments_overwrite(m, details) ==
  [m EXCEPT !.totalComments = details.totalComments]

\* metrics.totalComments += totalComments;  details is
\* prDetailsByRepo.get(pr.repoName).get(pr.number)
TrackComments(m, details) ==
  [m EXCEPT !.totalComments = @ + details.totalComments]

\* one iteration of  for (const pr of allPRs)
WeeklyLoopBody(cm, pr, details, since) ==
  LET author == pr.user
      known == IF Has(cm, author) THEN cm
               ELSE Put(cm, author, NewContributorMetrics)
      m == TrackComments(
             TrackState(TrackNew(known.vals[author], pr, since), pr, since),
             details)
  IN  Put(known, author, m)

(***************************************************************************)
(* generateWeeklyPRReport: ranking and rendering                           *)
(***************************************************************************)
\* the comparator without its second key
compareContributors_skipsNew(a, b) ==
  IF a.mergedPRsThisWeek # b.mergedPRsThisWeek
  THEN b.mergedPRsThisWeek - a.mergedPRsThisWeek
  ELSE b.openPRs - a.openPRs

\* the comparator handed to Array.prototype.sort
compareContributors(a, b) ==
  IF a.mergedPRsThisWeek # b.mergedPRsThisWeek
  THEN b.mergedPRsThisWeek - a.mergedPRsThisWeek
  ELSE IF a.newPRsThisWeek # b.newPRsThisWeek
  THEN b.newPRsThisWeek - a.newPRsThisWeek
  ELSE b.openPRs - a.openPRs

\* Array.prototype.sort is stable: an entry goes behind every entry that
\* does not compare greater than it
RECURSIVE InsertSorted(_, _, _)
InsertSorted(sorted, key, vals) ==
  IF sorted = <<>> THEN <<key>>
  ELSE IF compareContributors(vals[Head(sorted)], vals[key]) <= 0
  THEN <<Head(sorted)>> \o InsertSorted(Tail(sorted), key, vals)
  ELSE <<key>> \o sorted

RECURSIVE SortKeys(_, _)
SortKeys(keys, vals) ==
  IF keys = <<>> THEN <<>>
  ELSE InsertSorted(SortKeys(SubSeq(keys, 1, Len(keys) - 1), vals),
                    keys[Len(keys)], vals)

\* Array.from(contributorMetrics.entries()).sort(...), as the list of keys
sortedContributors(cm) == SortKeys(cm.keys, cm.vals)

\* count > 0 ? (total / count).toFixed(1) : '0.0'
GuardedAverage(total, count) ==
  IF count > 0 THEN toFixed1(JsDiv(Num(total), count)) ELSE "0.0"

\* the row with open pull requests counted in the comment denominator
TableRow_countsOpen(author, m) ==
  LET avgTimeToMerge == GuardedAverage(m.totalMergeTime, m.mergedPRCount)
      totalPRsWithActivity ==
        m.newPRsThisWeek + m.mergedPRsThisWeek + m.closedPRsThisWeek
          + m.openPRs
      avgComments == GuardedAverage(m.totalComments, totalPRsWithActivity)
  IN  <<author, ToString(m.newPRsThisWeek), ToString(m.mergedPRsThisWeek),
        ToString(m.openPRs), ToString(m.closedPRsThisWeek),
        avgTimeToMerge, avgComments>>

TableRow(author, m) ==
  LET avgTimeToMerge == GuardedAverage(m.totalMergeTime, m.mergedPRCount)
      totalPRsWithActivity ==
        m.newPRsThisWeek + m.mergedPRsThisWeek + m.closedPRsThisWeek
      avgComments == GuardedAverage(m.totalComments, totalPRsWithActivity)
  IN  <<author, ToString(m.newPRsThisWeek), ToString(m.mergedPRsThisWeek),
        ToString(m.openPRs), ToString(m.closedPRsThisWeek),
        avgTimeToMerge, avgComments>>

\* the reducer keeping the current record's openPRs instead of adding it
AddMetrics_overwritesOpen(acc, curr) ==
  [newPRsThisWeek |-> acc.newPRsThisWeek + curr.newPRsThisWeek,
   mergedPRsThisWeek |-> acc.mergedPRsThisWeek + curr.mergedPRsThisWeek,
   openPRs |-> curr.openPRs,
   closedPRsThisWeek |-> acc.closedPRsThisWeek + curr.closedPRsThisWeek,
   totalComments |-> acc.totalComments + curr.totalComments,
   totalMergeTime |-> acc.totalMergeTime + curr.totalMergeTime,
   mergedPRCount |-> acc.mergedPRCount + curr.mergedPRCount]

AddMetrics(acc, curr) ==
  [newPRsThisWeek |-> acc.newPRsThisWeek + curr.newPRsThisWeek,
   mergedPRsThisWeek |-> acc.mergedPRsThisWeek + curr.mergedPRsThisWeek,
   openPRs |-> acc.openPRs + curr.openPRs,
   closedPRsThisWeek |-> acc.closedPRsThisWeek + curr.closedPRsThisWeek,
   totalComments |-> acc.totalComments + curr.totalComments,
   totalMergeTime |-> acc.totalMergeTime + curr.totalMergeTime,
   mergedPRCount |-> acc.mergedPRCount + curr.mergedPRCount]

\* Array.from(contributorMetrics.values()).reduce(..., all-zero record)
RECURSIVE ReduceMetrics(_, _, _)
ReduceMetrics(acc, keys, vals) ==
  IF keys = <<>> THEN acc
  ELSE ReduceMetrics(AddMetrics(acc, vals[Head(keys)]), Tail(keys), vals)

totalMetrics(cm) == ReduceMetrics(NewContributorMetrics, cm.keys, cm.vals)

SummaryStatistics(cm) ==
  LET t == totalMetrics(cm)
      totalWeeklyActivity ==
        t.newPRsThisWeek + t.mergedPRsThisWeek + t.closedPRsThisWeek
  IN  << "- Total Active Contributors: " \o ToString(Size(cm)),
         "- New PRs This Week: " \o ToString(t.newPRsThisWeek),
         "- PRs Merged This Week: " \o ToString(t.mergedPRsThisWeek),
         "- PRs Closed Without Merge This Week: "
            \o ToString(t.closedPRsThisWeek),
         "- Currently Open PRs: " \o ToString(t.openPRs),
         "- Total Weekly PR Activity: " \o ToString(totalWeeklyActivity),
         "- Average Time to Merge: "
            \o GuardedAverage(t.totalMergeTime, t.mergedPRCount) \o " hours",
         "- Average Comments per PR: "
            \o GuardedAverage(t.totalComments, totalWeeklyActivity) >>

\* the table rows in ranked order and the summary block
WeeklyReport(cm) ==
  LET sorted == sortedContributors(cm)
  IN  [rows |-> [i \in 1..Len(sorted) |->
                   TableRow(sorted[i], cm.vals[sorted[i]])],
       summary |-> SummaryStatistics(cm)]

(***************************************************************************)
(* History of the consumed pull requests (rolling mode)                    *)
(***************************************************************************)
\* per author: pull requests consumed, and the comments their details hold
\* and, of the pull requests merged after the window start: the minutes
\* from creation to merge in sum, and how many of them took a time that is
\* not a whole number of hours
NothingSeenWeekly ==
  [u \in Users |->
     [count |-> 0, comments |-> 0, mergeMinutes |-> 0, fractional |-> 0]]

SeenWeekly(old, pr, details) ==
  LET merged == /\ pr.state # "open"
                /\ pr.merged_at # null
                /\ pr.merged_at > lastWeekDate
      minutes == IF merged THEN pr.merged_at - pr.created_at ELSE 0
  IN  [old EXCEPT ![pr.user] =
         [count |-> @.count + 1,
          comments |-> @.comments + details.totalComments,
          mergeMinutes |-> @.mergeMinutes + minutes,
          fractional |-> @.fractional + Bump(minutes % MinutesPerHour # 0)]]

(***************************************************************************)
(* Rolling mode: the run                                                   *)
(***************************************************************************)
\* the bounded-mode variables while generateWeeklyPRReport runs
BoundedIdle ==
  /\ startDate = 0
  /\ endDate = 0
  /\ metrics = InitialMetrics
  /\ totalMergeTime = Num(0)
  /\ totalFirstReviewTime = Num(0)
  /\ mergedCount = 0
  /\ reviewedCount = 0
  /\ report = NoReport

\* the rolling run reads only totalComments of a detail
RollingDetails == {d \in Details : d.reviews = 0}

InitRolling ==
  /\ CronIdle
  /\ pc = "reduce"
  /\ fetched = 0
  /\ seen = NothingSeenWeekly
  /\ lastWeekDate = TimeOf(1)
  /\ contributorMetrics = EmptyMap
  /\ reportLines = NoWeeklyReport
  /\ BoundedIdle
  /\ IoIdle

\* the loop takes the next pull request of the joined list
ProcessWeeklyPR ==
  /\ pc = "reduce"
  /\ fetched < MaxPRs
  /\ \E pr \in PullRequests, details \in RollingDetails :
       /\ fetched' = fetched + 1
       /\ seen' = SeenWeekly(seen, pr, details)
       /\ contributorMetrics' =
            WeeklyLoopBody(contributorMetrics, pr, details, lastWeekDate)
  /\ UNCHANGED <<pc, lastWeekDate, reportLines, boundedVars, ioVars, cron>>

\* the list is exhausted: the table and the summary are built and written
WriteWeeklyReport ==
  /\ pc = "reduce"
  /\ reportLines' = WeeklyReport(contributorMetrics)
  /\ pc' = "written"
  /\ UNCHANGED <<fetched, seen, lastWeekDate, contributorMetrics, boundedVars,
               ioVars, cron>>

NextRolling == ProcessWeeklyPR \/ WriteWeeklyReport

SpecRolling == InitRolling /\ [][NextRolling]_vars

(***************************************************************************)
(* Ranking: the loop has ended on a contributor map with up to             *)
(* MaxContributors authors and counters up to MaxCount                     *)
(***************************************************************************)
Contributor(i) == "user" \o ToString(i)

\* the record of an author of  m  pull requests merged this week and created
\* before the window,  n  created and closed without merge this week, and
\* o  open ones created before the window
RankedRecord(m, n, o) ==
  [newPRsThisWeek |-> n, mergedPRsThisWeek |-> m, openPRs |-> o,
   closedPRsThisWeek |-> n, totalComments |-> 0, mergedPRCount |-> m,
   totalMergeTime |-> 0]

RankedRecords ==
  {RankedRecord(m, n, o) : m \in 0..MaxCount, n \in 0..MaxCount,
                           o \in 0..MaxCount}

\* the map holding the records  recs[1] .. recs[k]  in insertion order
RankedMap(k, recs) ==
  [keys |-> [i \in 1..k |-> Contributor(i)],
   vals |-> [a \in {Contributor(i) : i \in 1..k} |->
               recs[CHOOSE i \in 1..k : Contributor(i) = a]]]

\* number of pull requests behind a record
RankedPRs(r) == r.newPRsThisWeek + r.mergedPRsThisWeek + r.openPRs

RECURSIVE SumPRs(_, _)
SumPRs(k, recs) ==
  IF k = 0 THEN 0 ELSE RankedPRs(recs[k]) + SumPRs(k - 1, recs)

InitRanking ==
  /\ CronIdle
  /\ pc = "reduce"
  /\ \E k \in 0..MaxContributors :
       \E recs \in [1..k -> RankedRecords] :
          /\ contributorMetrics = RankedMap(k, recs)
          /\ fetched = SumPRs(k, recs)
          /\ seen = [a \in {Contributor(i) : i \in 1..k} |->
                       [count |-> RankedPRs(
                                    recs[CHOOSE i \in 1..k : Contributor(i) = a]),
                        comments |-> 0, mergeMinutes |-> 0,
                        fractional |-> 0]]
  /\ lastWeekDate = TimeOf(1)
  /\ reportLines = NoWeeklyReport
  /\ BoundedIdle
  /\ IoIdle

SpecRanking == InitRanking /\ [][WriteWeeklyReport]_vars

(***************************************************************************)
(* generateWeeklyPRReport: fan-out, joins, reduction                       *)
(***************************************************************************)
\* moment(): the instant of the run, after every timestamp of a record
Now == TimeOf(MaxTick + 1)

\* moment(ts): moment(undefined) is the current instant
momentOf(ts) == IF ts = undefined THEN Now ELSE ts

\* the lists pulls.list returns for one repository: numbers are unique
\* within a repository, and every repository numbers its pull requests
\* from 1
RepoLists ==
  {d \in SeqsUpTo(RawPRs, Cardinality(PRNumbers)) :
     \A i \in 1..Len(d) : d[i].number = i}

WeeklyResponses ==
  {Fulfilled(d) : d \in RepoLists}
  \cup {Response("rejected", "error", <<>>, 403, "API rate limit exceeded"),
        Response("fulfilled", "undefined", <<>>, 200, "")}

\* Promise.all that continues as soon as one promise has settled
AllSettled_any(states) == \E r \in Repos : states[r] \notin {"idle", "pending"}

\* Promise.all that also waits for a fetch that was never started
AllSettled_awaitsUnstarted(states) ==
  \A r \in Repos : states[r] \notin {"idle", "pending"}

\* await Promise.all(...) over promises that do not reject: continues once
\* none is pending
AllSettled(states) == \A r \in Repos : states[r] # "pending"

\* allReposPRs.flat(): the lists in the order of repositories
RECURSIVE Flat(_, _)
Flat(lists, k) ==
  IF k = 0 THEN <<>> ELSE Flat(lists, k - 1) \o lists[repositories[k]]

\* prsByRepo[repoName]: the numbers of the repository's pull requests
RECURSIVE NumbersOf(_, _)
NumbersOf(prs, repoName) ==
  IF prs = <<>> THEN <<>>
  ELSE (IF Head(prs).repoName = repoName THEN <<Head(prs).number>> ELSE <<>>)
         \o NumbersOf(Tail(prs), repoName)

\* the lookup in the first map, in insertion order, that has the number
DetailFor_anyRepo(byRepo, pr) ==
  LET holders == SelectSeq(byRepo.keys,
                           LAMBDA r : Has(byRepo.vals[r], pr.number))
  IN  IF holders = <<>> THEN ZeroDetail
      ELSE byRepo.vals[Head(holders)].vals[pr.number]

\* prDetailsByRepo.get(pr.repoName).get(pr.number), when both exist; when
\* they do not, nothing is added to totalComments
DetailFor(byRepo, pr) ==
  IF Has(byRepo, pr.repoName) /\ Has(byRepo.vals[pr.repoName], pr.number)
    THEN byRepo.vals[pr.repoName].vals[pr.number]
    ELSE ZeroDetail

\* the loop  for (const pr of allPRs):  pr.user.login throws for a record
\* without author and the loop is left for the catch block
RECURSIVE ReduceAll(_, _, _, _)
ReduceAll(cm, prs, byRepo, since) ==
  IF prs = <<>> THEN [threw |-> FALSE, cm |-> cm]
  ELSE IF Head(prs).user = NoUser THEN [threw |-> TRUE, cm |-> cm]
  ELSE ReduceAll(
         WeeklyLoopBody(cm,
                        [Head(prs) EXCEPT !.created_at = momentOf(@)],
                        DetailFor(byRepo, Head(prs)), since),
         Tail(prs), byRepo, since)

\* the history of the pull requests the loop consumed before it ended
RECURSIVE SeenAll(_, _, _)
SeenAll(old, prs, byRepo) ==
  IF prs = <<>> \/ Head(prs).user = NoUser THEN old
  ELSE SeenAll(SeenWeekly(old, Head(prs), DetailFor(byRepo, Head(prs))),
               Tail(prs), byRepo)

\* the comment lists the client answers during a weekly run
WeeklyComments == {c \in CommentLists : c.length <= MaxComments}

NoComments == [ok |-> TRUE, length |-> 0]

NoReviews == [ok |-> TRUE, data |-> <<>>]

\* generateWeeklyPRReport has called fetchPRs for every repository
InitWeekly ==
  /\ CronIdle
  /\ pc = "fetch"
  /\ fetched = 0
  /\ seen = NothingSeenWeekly
  /\ lastWeekDate = TimeOf(1)
  /\ contributorMetrics = EmptyMap
  /\ reportLines = NoWeeklyReport
  /\ BoundedIdle
  /\ fetchCall = NoFetchCall
  /\ detailsCall = NoDetailsCall
  /\ weekly = [NoWeekly EXCEPT !.prFetches = [r \in Repos |-> "pending"]]

\* the pulls.list request of one repository settles and its fetchPRs
\* returns; were its promise to reject, Promise.all would reject and the
\* catch block end the process
SettlePRFetchFrom(responses) ==
  /\ pc = "fetch"
  /\ \E r \in Repos, response \in responses :
       LET result == fetchPRs(r, response)
       IN  /\ weekly.prFetches[r] = "pending"
           /\ weekly' =
                [weekly EXCEPT
                   !.prFetches[r] = result.state,
                   !.allReposPRs[r] = result.value,
                   !.failedRepos = IF Failed(response) THEN @ \cup {r} ELSE @,
                   !.exitCode = IF result.state = "rejected" THEN 1 ELSE @]
           /\ pc' = IF result.state = "rejected" THEN "exited" ELSE pc
  /\ UNCHANGED <<fetched, seen, boundedVars, rollingVars, fetchCall,
                 detailsCall, cron>>

SettlePRFetch == SettlePRFetchFrom(WeeklyResponses)

\* the first join: the lists are flattened and grouped, fetchPRDetails is
\* called for every repository that has pull requests
JoinPRFetches ==
  /\ pc = "fetch"
  /\ AllSettled(weekly.prFetches)
  /\ LET allPRs == Flat(weekly.allReposPRs, Len(repositories))
     IN  weekly' =
           [weekly EXCEPT
              !.allPRs = allPRs,
              !.detailFetches =
                 [r \in Repos |-> IF NumbersOf(allPRs, r) # <<>>
                                    THEN "pending" ELSE "idle"]]
  /\ pc' = "details"
  /\ UNCHANGED <<fetched, seen, boundedVars, rollingVars, fetchCall,
                 detailsCall, cron>>

\* the requests of the next pull request of one repository settle
WeeklyDetailStep ==
  /\ pc = "details"
  /\ \E r \in Repos, comments \in WeeklyComments :
       LET numbers == NumbersOf(weekly.allPRs, r)
           n == numbers[weekly.position[r] + 1]
       IN  /\ weekly.detailFetches[r] = "pending"
           /\ weekly.position[r] < Len(numbers)
           /\ weekly' =
                [weekly EXCEPT
                   !.position[r] = @ + 1,
                   !.details[r] = DetailsStep(@, "sequential", n, comments,
                                              NoComments, NoReviews),
                   !.answered[r][n] = comments.length,
                   !.failedDetails = IF comments.ok THEN @ \ {<<r, n>>}
                                     ELSE @ \cup {<<r, n>>}]
  /\ UNCHANGED <<pc, fetched, seen, boundedVars, rollingVars, fetchCall,
                 detailsCall, cron>>

\* fetchPRDetails of one repository returns: prDetailsByRepo.set
SettleDetailFetch ==
  /\ pc = "details"
  /\ \E r \in Repos :
       /\ weekly.detailFetches[r] = "pending"
       /\ weekly.position[r] = Len(NumbersOf(weekly.allPRs, r))
       /\ weekly' =
            [weekly EXCEPT
               !.detailFetches[r] = "settled",
               !.prDetailsByRepo = Put(@, r, weekly.details[r])]
  /\ UNCHANGED <<pc, fetched, seen, boundedVars, rollingVars, fetchCall,
                 detailsCall, cron>>

\* the second join: the loop over allPRs, then the table, the summary and
\* writeFileSync; or the catch block and process.exit(1)
ReduceAndWrite ==
  /\ pc = "details"
  /\ AllSettled(weekly.detailFetches)
  /\ \E out \in {ReduceAll(EmptyMap, weekly.allPRs, weekly.prDetailsByRepo,
                            lastWeekDate)} :
         /\ contributorMetrics' = out.cm
         /\ seen' = SeenAll(seen, weekly.allPRs, weekly.prDetailsByRepo)
         /\ reportLines' = IF out.threw THEN reportLines
                           ELSE WeeklyReport(out.cm)
         /\ pc' = IF out.threw THEN "exited" ELSE "written"
         /\ weekly' = [weekly EXCEPT
                         !.exitCode = IF out.threw THEN 1 ELSE @,
                         !.writes = IF out.threw THEN @ ELSE @ + 1]
  /\ fetched' = Len(weekly.allPRs)
  /\ UNCHANGED <<lastWeekDate, boundedVars, fetchCall, detailsCall, cron>>

NextWeekly ==
  \/ SettlePRFetch
  \/ JoinPRFetches
  \/ WeeklyDetailStep
  \/ SettleDetailFetch
  \/ ReduceAndWrite

SpecWeekly == InitWeekly /\ [][NextWeekly]_vars

\* every request handed to the client settles, and a continuation that can
\* run is run by the event loop
(***************************************************************************)
(* generateWeeklyPRReport: runs in which every call settles                *)
(***************************************************************************)
\* answers of pulls.list with at most one pull request, and a rejection
FewResponses ==
  {Fulfilled(d) : d \in {l \in RepoLists : Len(l) <= 1}}
  \cup {Response("rejected", "error", <<>>, 403, "API rate limit exceeded")}

SettleFewPRFetch == SettlePRFetchFrom(FewResponses)

NextSettling ==
  \/ SettleFewPRFetch
  \/ JoinPRFetches
  \/ WeeklyDetailStep
  \/ SettleDetailFetch
  \/ ReduceAndWrite

\* every request handed to the client settles, and a continuation that can
\* run is run by the event loop
SpecSettling ==
  /\ InitWeekly
  /\ [][NextSettling]_vars
  /\ WF_vars(SettleFewPRFetch)
  /\ WF_vars(JoinPRFetches)
  /\ WF_vars(WeeklyDetailStep)
  /\ WF_vars(SettleDetailFetch)
  /\ WF_vars(ReduceAndWrite)

(***************************************************************************)
(* One call of fetchPRs                                                    *)
(***************************************************************************)
\* every other part of the program is at rest
AtRest ==
  /\ CronIdle
  /\ pc = "io"
  /\ fetched = 0
  /\ seen = NothingSeen
  /\ BoundedIdle
  /\ RollingIdle

PullsResponses ==
  {Fulfilled(d) : d \in SeqsUpTo(RawPRs, MaxPRs)}
  \cup ClientErrors \cup MalformedResponses

InitFetchPRs == AtRest /\ IoIdle

\* fetchPRs(repoName) is called and awaits pulls.list
CallFetchPRs ==
  /\ pc = "io"
  /\ fetchCall.state = "idle"
  /\ detailsCall.state = "idle"
  /\ \E repoName \in Repos :
       fetchCall' = [fetchCall EXCEPT !.state = "pending",
                                      !.repoName = repoName]
  /\ UNCHANGED <<pc, fetched, seen, boundedVars, rollingVars, detailsCall,
                 weekly, cron>>

\* the request settles and fetchPRs runs to its return
SettleFetchPRs ==
  /\ fetchCall.state = "pending"
  /\ \E response \in PullsResponses :
       fetchCall' = [fetchCall EXCEPT
                       !.state = "returned",
                       !.response = response,
                       !.result = fetchPRs(fetchCall.repoName, response)]
  /\ UNCHANGED <<pc, fetched, seen, boundedVars, rollingVars, detailsCall,
                 weekly, cron>>

NextFetchPRs == CallFetchPRs \/ SettleFetchPRs

SpecFetchPRs == InitFetchPRs /\ [][NextFetchPRs]_vars

(***************************************************************************)
(* One call of fetchPRDetails                                              *)
(***************************************************************************)
\* positions of the batch whose requests have not completed
Undone(call) == (1..Len(call.prNumbers)) \ call.done

\* positions whose requests may complete next: the loop of index.js awaits
\* one pull request at a time, the earlier variant has all of them in flight
MayComplete(call) ==
  IF call.variant = "sequential"
    THEN {i \in Undone(call) : \A j \in Undone(call) : i <= j}
    ELSE Undone(call)

\* the call as it is after the requests of position i completed
Completed(call, i, comments, reviewComments, reviews) ==
  LET prNumber == call.prNumbers[i]
      fails == \/ ~comments.ok
               \/ ~reviewComments.ok
               \/ call.variant = "sequential" /\ ~reviews.ok
      answers == \/ comments.ok /\ comments.length > 0
                 \/ reviewComments.ok /\ reviewComments.length > 0
                 \/ /\ call.variant = "sequential"
                    /\ reviews.ok
                    /\ reviews.data # <<>>
  IN  [call EXCEPT
         !.done = @ \cup {i},
         !.failed = IF fails THEN @ \cup {prNumber} ELSE @ \ {prNumber},
         !.partial = IF fails /\ answers THEN @ \cup {prNumber}
                     ELSE @ \ {prNumber},
         !.details = DetailsStep(@, call.variant, prNumber, comments,
                                 reviewComments, reviews)]

InitFetchDetails == AtRest /\ IoIdle

\* fetchPRDetails(repoName, prNumbers) is called
CallFetchPRDetails ==
  /\ pc = "io"
  /\ detailsCall.state = "idle"
  /\ fetchCall.state = "idle"
  /\ \E variant \in {"sequential", "concurrent"}, prNumbers \in Batches :
       detailsCall' = [detailsCall EXCEPT !.state = "looping",
                                          !.variant = variant,
                                          !.prNumbers = prNumbers]
  /\ UNCHANGED <<pc, fetched, seen, boundedVars, rollingVars, fetchCall,
                 weekly, cron>>

\* the requests of one pull request settle and its entry is set
FetchDetailStep ==
  /\ detailsCall.state = "looping"
  /\ \E i \in MayComplete(detailsCall) :
       \E comments \in CommentLists, reviewComments \in CommentLists,
          reviews \in ReviewLists :
          detailsCall' =
            Completed(detailsCall, i, comments, reviewComments, reviews)
  /\ UNCHANGED <<pc, fetched, seen, boundedVars, rollingVars, fetchCall,
                 weekly, cron>>

\* every pull request is done: the map is returned
ReturnDetails ==
  /\ detailsCall.state = "looping"
  /\ Undone(detailsCall) = {}
  /\ detailsCall' = [detailsCall EXCEPT !.state = "returned"]
  /\ UNCHANGED <<pc, fetched, seen, boundedVars, rollingVars, fetchCall,
                 weekly, cron>>

NextFetchDetails == CallFetchPRDetails \/ FetchDetailStep \/ ReturnDetails

SpecFetchDetails == InitFetchDetails /\ [][NextFetchDetails]_vars

(***************************************************************************)
(* setupCronJob: the run                                                   *)
(***************************************************************************)
\* the crontab before the first call: none, or any text of up to
\* MaxCronLines lines
InitialCrontabs ==
  {NoCrontab} \cup {t \in SeqsUpTo(CrontabLines, MaxCronLines) : t # <<>>}

InitCron ==
  /\ pc = "cron"
  /\ fetched = 0
  /\ seen = NothingSeen
  /\ BoundedIdle
  /\ RollingIdle
  /\ IoIdle
  /\ \E installed \in InitialCrontabs :
       cron = [NoCron EXCEPT !.installed = installed]

\* setupCronJob(): the promise is created and  crontab -l  handed to exec
CallSetupCronJob ==
  /\ pc = "cron"
  /\ cron.state \in {"idle", "settled"}
  /\ cron.runs < MaxRuns
  /\ cron' = [cron EXCEPT !.state = "reading", !.runs = @ + 1,
                          !.read = NoOutcome, !.write = NoOutcome,
                          !.newCrontab = EmptyText,
                          !.execs = << "crontab -l" >>,
                          !.promise = "pending", !.settles = 0,
                          !.reason = ""]
  /\ UNCHANGED <<pc, fetched, seen, boundedVars, rollingVars, ioVars>>

\* the callback of the read: reject, or build the new crontab and hand the
\* write to exec
ReadCompletes ==
  /\ cron.state = "reading"
  /\ \E out \in ReadOutcomes(cron.installed) :
       cron' =
         IF ReadRejects(out.error, out.stderr)
           THEN [cron EXCEPT !.state = "settled", !.read = out,
                             !.promise = "rejected", !.settles = @ + 1,
                             !.reason = out.message]
           ELSE [cron EXCEPT !.state = "writing", !.read = out,
                             !.newCrontab =
                                NewCrontab(RemoveEntries(out.stdout)),
                             !.execs = Append(@, "crontab -")]
  /\ UNCHANGED <<pc, fetched, seen, boundedVars, rollingVars, ioVars>>

\* the callback of the write: reject, or resolve with the crontab installed
WriteCompletes ==
  /\ cron.state = "writing"
  /\ \E out \in WriteOutcomes :
       cron' =
         IF out.error
           THEN [cron EXCEPT !.state = "settled", !.write = out,
                             !.promise = "rejected", !.settles = @ + 1,
                             !.reason = out.message]
           ELSE LET written == Echo(ShellDoubleQuoted(cron.newCrontab))
                IN  [cron EXCEPT !.state = "settled", !.write = out,
                                 !.installed = written,
                                 !.first = IF cron.runs = 1 THEN written
                                           ELSE @,
                                 !.promise = "resolved", !.settles = @ + 1]
  /\ UNCHANGED <<pc, fetched, seen, boundedVars, rollingVars, ioVars>>

NextCron == CallSetupCronJob \/ ReadCompletes \/ WriteCompletes

SpecCron == InitCron /\ [][NextCron]_vars

(***************************************************************************)
(* The program: either entry point                                         *)
(***************************************************************************)
Init == InitBounded \/ InitRolling

Next == NextBounded \/ NextRolling

Spec == Init /\ [][Next]_vars

(***************************************************************************)
(* Properties of the bounded mode                                          *)
(***************************************************************************)
BoundedRun == pc \in {"loop", "returned", "rendered"}

BoundedReturned == pc \in {"returned", "rendered"}

\* the contributor record of u, all zero while u has no key
ContributorOf(m, u) ==
  IF Has(m.contributors, u) THEN m.contributors.vals[u] ELSE NewContributor

\* the loop is about to take one more pull request
Looping == pc = "loop" /\ fetched < MaxPRs

\* the result of the loop taking pr next, from the current state
After(pr, details) == LoopBody(Acc, pr, details, startDate, endDate)

(***************************************************************************)
(* C1  Bounded mode: newPRs is exactly the number of fetched pull requests *)
(* whose created timestamp t satisfies startDate <= t <= endDate, both     *)
(* endpoints included, after every prefix of the list and in the result.   *)
(***************************************************************************)
C1_NewPRsCountsInclusiveRange ==
  BoundedRun => metrics.newPRs = seen.inRange

\* a result that counts pull requests created exactly at startDate and
\* exactly at endDate
C1_Witness ==
  /\ pc = "returned"
  /\ startDate < endDate
  /\ seen.atStart > 0
  /\ seen.atEnd > 0
  /\ metrics.newPRs = seen.atStart + seen.atEnd

C3_OutsideRangeChangesNothing ==
  Looping =>
    \A pr \in BoundedInputs, d \in Details :
      ~CreatedInRange(pr, startDate, endDate) => After(pr, d) = Acc

\* returned result of a list that held an open or merged pull request created
\* outside the range next to one created inside
C3_Witness ==
  /\ pc = "returned"
  /\ fetched = 2
  /\ seen.inRange = 1
  /\ seen.live > metrics.openPRs + metrics.mergedPRs
  /\ metrics.newPRs = 1
  /\ Size(metrics.contributors) = 1

(***************************************************************************)
(* C4  (as amended) In the bounded-mode result mergedPRs + openPRs <=      *)
(* newPRs always holds, globally and for every contributor: open and merged*)
(* pull requests are counted only among those created in the range.        *)
(***************************************************************************)
C4_LiveWithinNew ==
  BoundedRun =>
    /\ metrics.mergedPRs + metrics.openPRs <= metrics.newPRs
    /\ \A u \in Users :
         ContributorOf(metrics, u).mergedPRs + ContributorOf(metrics, u).openPRs
           <= ContributorOf(metrics, u).newPRs

\* a result in which every counted pull request is open or merged, next to a
\* fetched open or merged pull request that was created outside the range
C4_Witness ==
  /\ pc = "returned"
  /\ metrics.newPRs = 1
  /\ metrics.mergedPRs + metrics.openPRs = 1
  /\ seen.live = 2

\* C4 as stated: open and merged pull requests are counted without
\* restriction to the creation window, so a list with more open or merged
\* pull requests than pull requests created in the range returns
\* mergedPRs + openPRs > newPRs
C4_Original ==
  (BoundedReturned /\ seen.live > seen.inRange) =>
    metrics.mergedPRs + metrics.openPRs > metrics.newPRs

(***************************************************************************)
(* Properties of the rolling mode                                          *)
(***************************************************************************)
\* the loop of generateWeeklyPRReport is about to take one more pull request
Reducing == pc = "reduce" /\ fetched < MaxPRs

\* the counters of author u, all zero while u has no record
MetricsOf(cm, u) == IF Has(cm, u) THEN cm.vals[u] ELSE NewContributorMetrics

\* the contributor map after the loop takes pr next, from the current state
AfterWeekly(pr, details) ==
  WeeklyLoopBody(contributorMetrics, pr, details, lastWeekDate)

MergedThisWeek(pr) ==
  pr.state # "open" /\ pr.merged_at # null /\ pr.merged_at > lastWeekDate

ClosedThisWeek(pr) ==
  /\ pr.state # "open"
  /\ pr.merged_at = null
  /\ pr.closed_at # null
  /\ pr.closed_at > lastWeekDate

(***************************************************************************)
(* C5  Division-by-zero guard for merge time, in both modes: when no       *)
(* merge-time sample was counted no division is performed; the bounded     *)
(* avgTimeToMerge is exactly 0 and rendered as "N/A"; the rolling average  *)
(* of a contributor or of the totals with mergedPRCount = 0 is rendered as *)
(* "0.0".                                                                  *)
(***************************************************************************)
C5_NoDivisionByZero ==
  /\ BoundedReturned =>
       /\ metrics.avgTimeToMerge.den # 0
       /\ mergedCount = 0 => metrics.avgTimeToMerge = Num(0)
  /\ (pc = "rendered" /\ mergedCount = 0) =>
       report.summary[4] = "- Average Time to Merge: N/A"
  /\ pc = "written" =>
       /\ \A i \in 1..Len(reportLines.rows) :
            LET row == reportLines.rows[i]
            IN  /\ row[6] \notin {"NaN", "Infinity"}
                /\ contributorMetrics.vals[row[1]].mergedPRCount = 0 =>
                     row[6] = "0.0"
       /\ totalMetrics(contributorMetrics).mergedPRCount = 0 =>
            reportLines.summary[7] = "- Average Time to Merge: 0.0 hours"

\* a rendered bounded report for pull requests created in the range none of
\* which was merged
C5_Witness ==
  /\ pc = "rendered"
  /\ metrics.newPRs > 0
  /\ mergedCount = 0
  /\ report.summary[4] = "- Average Time to Merge: N/A"

(***************************************************************************)
(* C6  Ranking: in the rendered contributor table, whenever row A is above *)
(* row B the triple (mergedPRsThisWeek, newPRsThisWeek, openPRs) of A is   *)
(* lexicographically greater than or equal to that of B; and the table is  *)
(* a permutation of the contributor map, one row per contributor.          *)
(***************************************************************************)
LexGeq(a, b) ==
  \/ a.mergedPRsThisWeek > b.mergedPRsThisWeek
  \/ /\ a.mergedPRsThisWeek = b.mergedPRsThisWeek
     /\ \/ a.newPRsThisWeek > b.newPRsThisWeek
        \/ /\ a.newPRsThisWeek = b.newPRsThisWeek
           /\ a.openPRs >= b.openPRs

C6_RankedTable ==
  pc = "written" =>
    LET rows == reportLines.rows
        cm == contributorMetrics
    IN  /\ Len(rows) = Size(cm)
        /\ {rows[i][1] : i \in 1..Len(rows)} = DOMAIN cm.vals
        /\ \A i, j \in 1..Len(rows) :
             i < j =>
               /\ rows[i][1] # rows[j][1]
               /\ LexGeq(cm.vals[rows[i][1]], cm.vals[rows[j][1]])
        /\ \A i \in 1..Len(rows) :
             LET m == cm.vals[rows[i][1]]
             IN  /\ rows[i][2] = ToString(m.newPRsThisWeek)
                 /\ rows[i][3] = ToString(m.mergedPRsThisWeek)
                 /\ rows[i][4] = ToString(m.openPRs)

\* three contributors inserted as (merged, new) = (1,0), (1,1), (0,1): the
\* tie on merged is broken by new, and the one with fewer merged is last
C6_Witness ==
  /\ pc = "written"
  /\ contributorMetrics.keys = <<"user1", "user2", "user3">>
  /\ contributorMetrics.vals["user1"].mergedPRsThisWeek = 1
  /\ contributorMetrics.vals["user1"].newPRsThisWeek = 0
  /\ contributorMetrics.vals["user2"].mergedPRsThisWeek = 1
  /\ contributorMetrics.vals["user2"].newPRsThisWeek = 1
  /\ contributorMetrics.vals["user3"].mergedPRsThisWeek = 0
  /\ contributorMetrics.vals["user3"].newPRsThisWeek = 1
  /\ [i \in 1..3 |-> reportLines.rows[i][1]] = <<"user2", "user1", "user3">>

(***************************************************************************)
(* C7  Rolling mode: one pull request increments at most one of openPRs,   *)
(* mergedPRsThisWeek and closedPRsThisWeek of its author: open; else merged*)
(* after the window start; else closed, not merged, after the window start;*)
(* else none.  So for every contributor the three counters sum to at most  *)
(* the number of that contributor's pull requests, and a pull request with *)
(* a merged timestamp is never counted in closedPRsThisWeek.               *)
(***************************************************************************)
C7_ExclusiveStates ==
  /\ pc \in {"reduce", "written"} =>
       \A u \in DOMAIN contributorMetrics.vals :
          LET m == contributorMetrics.vals[u]
          IN  m.openPRs + m.mergedPRsThisWeek + m.closedPRsThisWeek
                <= seen[u].count
  /\ Reducing =>
       \A pr \in PullRequests, d \in RollingDetails :
          LET before == MetricsOf(contributorMetrics, pr.user)
              after == AfterWeekly(pr, d).vals[pr.user]
              open == after.openPRs - before.openPRs
              merged == after.mergedPRsThisWeek - before.mergedPRsThisWeek
              closed == after.closedPRsThisWeek - before.closedPRsThisWeek
          IN  /\ open = Bump(IsOpen(pr))
              /\ merged = Bump(MergedThisWeek(pr))
              /\ closed = Bump(ClosedThisWeek(pr))
              /\ open + merged + closed <= 1
              /\ pr.merged_at # null => closed = 0

\* a contributor whose two pull requests were counted one as merged and one
\* as closed, and a contributor whose only pull request was counted nowhere
C7_Witness ==
  /\ pc = "written"
  /\ \E u \in DOMAIN contributorMetrics.vals :
       /\ seen[u].count = 2
       /\ contributorMetrics.vals[u].mergedPRsThisWeek = 1
       /\ contributorMetrics.vals[u].closedPRsThisWeek = 1
       /\ contributorMetrics.vals[u].openPRs = 0

(***************************************************************************)
(* C8  Rolling mode: newPRsThisWeek is incremented for a pull request      *)
(* exactly when created > windowStart (strict), whatever its state; openPRs*)
(* is incremented for every open pull request whatever its creation time.  *)
(***************************************************************************)
C8_NewAndOpenIndependent ==
  Reducing =>
    \A pr \in PullRequests, d \in RollingDetails :
       LET before == MetricsOf(contributorMetrics, pr.user)
           after == AfterWeekly(pr, d).vals[pr.user]
       IN  /\ after.newPRsThisWeek =
                before.newPRsThisWeek + Bump(pr.created_at > lastWeekDate)
           /\ after.openPRs = before.openPRs + Bump(IsOpen(pr))

\* one contributor with an open pull request that is not new, another with an
\* open pull request that is also new
C8_Witness ==
  /\ pc = "written"
  /\ \E u, v \in DOMAIN contributorMetrics.vals :
       /\ seen[u].count = 1
       /\ contributorMetrics.vals[u].openPRs = 1
       /\ contributorMetrics.vals[u].newPRsThisWeek = 0
       /\ seen[v].count = 1
       /\ contributorMetrics.vals[v].openPRs = 1
       /\ contributorMetrics.vals[v].newPRsThisWeek = 1

(***************************************************************************)
(* C9  Rolling mode: after every prefix of the list every contributor      *)
(* record has mergedPRCount = mergedPRsThisWeek, and so have the totals.   *)
(***************************************************************************)
C9_OneSamplePerMerge ==
  pc \in {"reduce", "written"} =>
    /\ \A u \in DOMAIN contributorMetrics.vals :
          contributorMetrics.vals[u].mergedPRCount =
            contributorMetrics.vals[u].mergedPRsThisWeek
    /\ totalMetrics(contributorMetrics).mergedPRCount =
         totalMetrics(contributorMetrics).mergedPRsThisWeek

\* two contributors with one merge each, one of them merged at creation
C9_Witness ==
  /\ pc = "reduce"
  /\ Size(contributorMetrics) = 2
  /\ \A u \in DOMAIN contributorMetrics.vals :
       contributorMetrics.vals[u].mergedPRsThisWeek = 1
  /\ \E u \in DOMAIN contributorMetrics.vals :
       contributorMetrics.vals[u].totalMergeTime = 0

(***************************************************************************)
(* C10  Rolling mode: each contributor's totalComments is the sum of the   *)
(* totalComments of the details of all pull requests of that contributor,  *)
(* whatever their state and creation time: a running sum, never            *)
(* overwritten by a later pull request.                                    *)
(***************************************************************************)
C10_CommentsSummed ==
  /\ pc \in {"reduce", "written"} =>
       \A u \in DOMAIN contributorMetrics.vals :
          contributorMetrics.vals[u].totalComments = seen[u].comments
  /\ Reducing =>
       \A pr \in PullRequests, d \in RollingDetails :
          AfterWeekly(pr, d).vals[pr.user].totalComments =
            MetricsOf(contributorMetrics, pr.user).totalComments
              + d.totalComments

\* a contributor with two pull requests, neither new, merged or closed this
\* week, whose comments add up
C10_Witness ==
  /\ pc = "written"
  /\ \E u \in DOMAIN contributorMetrics.vals :
       LET m == contributorMetrics.vals[u]
       IN  /\ seen[u].count = 2
           /\ m.totalComments = 2 * MaxComments
           /\ m.newPRsThisWeek + m.mergedPRsThisWeek + m.closedPRsThisWeek = 0

(***************************************************************************)
(* C11  Rolling mode global totals: each field of the summary totals       *)
(* equals the sum of that field over all contributor records, and 'Total   *)
(* Active Contributors' is the number of contributor records.              *)
(***************************************************************************)
MetricsFields ==
  {"newPRsThisWeek", "mergedPRsThisWeek", "openPRs", "closedPRsThisWeek",
   "totalComments", "totalMergeTime", "mergedPRCount"}

\* the sum of one field over a set of authors, in no particular order
RECURSIVE FieldSum(_, _, _)
FieldSum(authors, vals, field) ==
  IF authors = {} THEN 0
  ELSE LET a == CHOOSE x \in authors : TRUE
       IN  vals[a][field] + FieldSum(authors \ {a}, vals, field)

C11_TotalsAreSums ==
  pc \in {"reduce", "written"} =>
    LET cm == contributorMetrics
        authors == DOMAIN cm.vals
    IN  /\ \A f \in MetricsFields :
             totalMetrics(cm)[f] = FieldSum(authors, cm.vals, f)
        /\ pc = "written" =>
             /\ reportLines.summary[1] =
                  "- Total Active Contributors: "
                    \o ToString(Cardinality(authors))
             /\ reportLines.summary[2] =
                  "- New PRs This Week: "
                    \o ToString(FieldSum(authors, cm.vals, "newPRsThisWeek"))
             /\ reportLines.summary[3] =
                  "- PRs Merged This Week: "
                    \o ToString(FieldSum(authors, cm.vals, "mergedPRsThisWeek"))
             /\ reportLines.summary[4] =
                  "- PRs Closed Without Merge This Week: "
                    \o ToString(FieldSum(authors, cm.vals, "closedPRsThisWeek"))
             /\ reportLines.summary[5] =
                  "- Currently Open PRs: "
                    \o ToString(FieldSum(authors, cm.vals, "openPRs"))

\* two contributors, each with an open pull request carrying comments
C11_Witness ==
  /\ pc = "written"
  /\ Size(contributorMetrics) = 2
  /\ \A u \in DOMAIN contributorMetrics.vals :
       /\ contributorMetrics.vals[u].openPRs = 1
       /\ contributorMetrics.vals[u].totalComments = MaxComments
  /\ reportLines.summary[1] = "- Total Active Contributors: 2"
  /\ reportLines.summary[5] = "- Currently Open PRs: 2"

(***************************************************************************)
(* C12  Rolling mode average comments: for each contributor the            *)
(* denominator is newPRsThisWeek + mergedPRsThisWeek + closedPRsThisWeek,  *)
(* open pull requests not being part of it; when it is 0 nothing is        *)
(* divided and "0.0" is rendered, even if totalComments > 0; otherwise the *)
(* value is totalComments divided by the denominator.  The same holds of   *)
(* the overall average of the summary.                                     *)
(***************************************************************************)
ActivityOf(m) == m.newPRsThisWeek + m.mergedPRsThisWeek + m.closedPRsThisWeek

C12_AverageComments ==
  pc = "written" =>
    /\ \A i \in 1..Len(reportLines.rows) :
         LET row == reportLines.rows[i]
             m == contributorMetrics.vals[row[1]]
         IN  /\ row[7] \notin {"NaN", "Infinity"}
             /\ ActivityOf(m) = 0 => row[7] = "0.0"
             /\ ActivityOf(m) > 0 =>
                  row[7] = toFixed1([num |-> m.totalComments,
                                     den |-> ActivityOf(m)])
    /\ LET t == totalMetrics(contributorMetrics)
       IN  reportLines.summary[8] =
             "- Average Comments per PR: " \o
               (IF ActivityOf(t) = 0 THEN "0.0"
                ELSE toFixed1([num |-> t.totalComments,
                               den |-> ActivityOf(t)]))

\* one contributor whose only pull request is open, old and commented
\* ("0.0" with totalComments > 0), another whose commented pull request was
\* created and merged this week (one comment over two activities)
C12_Witness ==
  /\ pc = "written"
  /\ Len(reportLines.rows) = 2
  /\ \E i, j \in 1..2 :
       LET a == contributorMetrics.vals[reportLines.rows[i][1]]
           b == contributorMetrics.vals[reportLines.rows[j][1]]
       IN  /\ a.openPRs = 1 /\ a.totalComments = 1 /\ ActivityOf(a) = 0
           /\ reportLines.rows[i][7] = "0.0"
           /\ b.totalComments = 1 /\ ActivityOf(b) = 2
           /\ reportLines.rows[j][7] = "0.5"

(***************************************************************************)
(* C13  fetchPRs never throws or rejects: for every failure of the         *)
(* retrieval client (a rejection or a throw of any kind, a malformed       *)
(* response) its promise fulfils with the empty sequence; on success it    *)
(* fulfils with every retrieved pull request, in order, tagged with the    *)
(* repository name it was called with.                                     *)
(***************************************************************************)
C13_FetchPRsNeverRejects ==
  fetchCall.state = "returned" =>
    LET response == fetchCall.response
        result == fetchCall.result
    IN  /\ result.state = "fulfilled"
        /\ Failed(response) => result.value = <<>>
        /\ ~Failed(response) =>
             /\ Len(result.value) = Len(response.data)
             /\ \A i \in 1..Len(response.data) :
                  /\ result.value[i].repoName = fetchCall.repoName
                  /\ \A f \in DOMAIN response.data[i] :
                       result.value[i][f] = response.data[i][f]

\* a request for repo2 refused with status 403
C13_Witness ==
  /\ fetchCall.state = "returned"
  /\ fetchCall.repoName = "repo2"
  /\ fetchCall.response.settle = "rejected"
  /\ fetchCall.response.status = 403
  /\ fetchCall.result.state = "fulfilled"
  /\ fetchCall.result.value = <<>>
  /\ fetchCall.result.logged = "API rate limit exceeded"

(***************************************************************************)
(* Properties of fetchPRDetails                                            *)
(***************************************************************************)
\* a call of fetchPRDetails has pull requests left to fetch
FetchingDetails ==
  detailsCall.state = "looping" /\ Undone(detailsCall) # {}

\* the numbers whose requests have completed
DoneNumbers(call) == {call.prNumbers[i] : i \in call.done}

(***************************************************************************)
(* C14  fetchPRDetails isolates failures per pull request: the map holds   *)
(* the all-zero record for exactly the pull requests whose retrieval       *)
(* failed, and for every other pull request of the batch, before or after  *)
(* a failing one, the record it would hold had nothing failed;             *)
(* fetchPRDetails goes on to return its map and never rejects.             *)
(***************************************************************************)
C14_FailureIsolated ==
  detailsCall.variant = "sequential" =>
    /\ detailsCall.state \in {"idle", "looping", "returned"}
    /\ \A n \in detailsCall.failed : detailsCall.details.vals[n] = ZeroDetail
    /\ FetchingDetails =>
         \A i \in MayComplete(detailsCall) :
            \A comments \in CommentLists, reviewComments \in CommentLists,
               reviews \in ReviewLists :
               LET after == Completed(detailsCall, i, comments,
                                      reviewComments, reviews)
                   n == detailsCall.prNumbers[i]
                   allOk == comments.ok /\ reviewComments.ok /\ reviews.ok
               IN  /\ after.state = "looping"
                   /\ ~allOk => after.details.vals[n] = ZeroDetail
                   /\ allOk =>
                        after.details.vals[n] =
                          DetailRecord(comments, reviewComments, reviews)
                   /\ \A k \in DOMAIN detailsCall.details.vals :
                        k # n =>
                          after.details.vals[k] = detailsCall.details.vals[k]

\* the first pull request of the batch failed and the second, fetched after
\* it, has its own counts
C14_Witness ==
  /\ detailsCall.state = "returned"
  /\ detailsCall.variant = "sequential"
  /\ detailsCall.prNumbers = <<1, 2>>
  /\ detailsCall.failed = {1}
  /\ detailsCall.details.vals[1] = ZeroDetail
  /\ detailsCall.details.vals[2].totalComments = 2
  /\ detailsCall.details.vals[2].reviews = 1

(***************************************************************************)
(* C15  The map fetchPRDetails returns has exactly the requested numbers   *)
(* as keys, one entry per requested number, whatever requests succeed or   *)
(* fail and, in the concurrent variant, in whatever order the pull         *)
(* requests complete.                                                      *)
(***************************************************************************)
C15_KeysAreRequested ==
  LET call == detailsCall
      keys == call.details.keys
  IN  /\ DOMAIN call.details.vals = DoneNumbers(call)
      /\ {keys[i] : i \in 1..Len(keys)} = DoneNumbers(call)
      /\ Len(keys) = Cardinality(DoneNumbers(call))
      /\ call.state = "returned" =>
           DOMAIN call.details.vals =
             {call.prNumbers[i] : i \in 1..Len(call.prNumbers)}

\* the concurrent variant, the second pull request completing first and
\* failing
C15_Witness ==
  /\ detailsCall.state = "returned"
  /\ detailsCall.variant = "concurrent"
  /\ detailsCall.prNumbers = <<1, 2>>
  /\ detailsCall.details.keys = <<2, 1>>
  /\ detailsCall.failed = {2}

(***************************************************************************)
(* C16  On success the record of a pull request has discussionComments =   *)
(* number of issue comments, reviewComments = number of review comments,   *)
(* totalComments = their sum, reviews = number of reviews, approvals =     *)
(* number of reviews in state APPROVED, changesRequested = number of       *)
(* reviews in state CHANGES_REQUESTED; hence approvals + changesRequested  *)
(* <= reviews.                                                             *)
(***************************************************************************)
InState(data, state) == Len(SelectSeq(data, LAMBDA r : r = state))

C16_DetailCounts ==
  (FetchingDetails /\ detailsCall.variant = "sequential") =>
    \A i \in MayComplete(detailsCall) :
       \A comments \in CommentLists, reviewComments \in CommentLists,
          reviews \in ReviewLists :
          (comments.ok /\ reviewComments.ok /\ reviews.ok) =>
            LET d == Completed(detailsCall, i, comments, reviewComments,
                               reviews).details.vals[detailsCall.prNumbers[i]]
            IN  /\ d.discussionComments = comments.length
                /\ d.reviewComments = reviewComments.length
                /\ d.totalComments = comments.length + reviewComments.length
                /\ d.reviews = Len(reviews.data)
                /\ d.approvals = InState(reviews.data, "APPROVED")
                /\ d.changesRequested =
                     InState(reviews.data, "CHANGES_REQUESTED")
                /\ d.approvals + d.changesRequested <= d.reviews

\* two issue comments, one review comment, an approval and a request for
\* changes
C16_Witness ==
  /\ detailsCall.state = "returned"
  /\ detailsCall.variant = "sequential"
  /\ detailsCall.prNumbers = <<1>>
  /\ detailsCall.details.vals[1] =
       [totalComments |-> 3, reviewComments |-> 1, discussionComments |-> 2,
        reviews |-> 2, approvals |-> 1, changesRequested |-> 1]

(***************************************************************************)
(* Properties of a weekly run                                              *)
(***************************************************************************)
\* the run is past its first join
Joined == pc \in {"details", "written", "exited"}

\* the comment count the client answered for pull request n of repository
\* r, zero when its requests failed
AnsweredComments(r, n) ==
  IF <<r, n>> \in weekly.failedDetails THEN 0 ELSE weekly.answered[r][n]

\* the pull requests of the repositories whose fetch succeeded, as pairs of
\* repository and position in its list
Retrieved ==
  {<<r, i>> \in (Repos \ weekly.failedRepos) \X PRNumbers :
     i <= Len(weekly.allReposPRs[r])}

RetrievedPR(e) == weekly.allReposPRs[e[1]][e[2]]

RECURSIVE CommentSum(_)
CommentSum(entries) ==
  IF entries = {} THEN 0
  ELSE LET e == CHOOSE x \in entries : TRUE
       IN  AnsweredComments(e[1], RetrievedPR(e).number)
             + CommentSum(entries \ {e})

(***************************************************************************)
(* C17  Malformed input is fatal to the whole run: if a fetched record     *)
(* lacks a required field (the created timestamp, the author) the run      *)
(* writes no report and exits with status 1.                               *)
(***************************************************************************)
C17_MalformedIsFatal ==
  (/\ pc \in {"written", "exited"}
   /\ \E i \in 1..Len(weekly.allPRs) : ~WellFormed(weekly.allPRs[i]))
  => /\ pc = "exited"
     /\ weekly.exitCode = 1
     /\ reportLines = NoWeeklyReport

(***************************************************************************)
(* C18  Retrieval failures degrade the report and never abort the run: a   *)
(* failed fetch of a repository or of a pull request's details does not    *)
(* end the run with a failure, and the reported metrics are those of the   *)
(* pull requests of the repositories fetched with success, with zero       *)
(* comments for the pull requests whose detail fetch failed.               *)
(***************************************************************************)
C18_FailuresDegrade ==
  /\ pc = "exited" =>
       \E i \in 1..Len(weekly.allPRs) : weekly.allPRs[i].user = NoUser
  /\ \A r \in weekly.failedRepos :
       weekly.prFetches[r] = "fulfilled" /\ weekly.allReposPRs[r] = <<>>
  /\ (/\ pc = "written"
      /\ \A i \in 1..Len(weekly.allPRs) : WellFormed(weekly.allPRs[i]))
     => /\ weekly.exitCode = 0
        /\ reportLines # NoWeeklyReport
        /\ DOMAIN contributorMetrics.vals =
             {RetrievedPR(e).user : e \in Retrieved}
        /\ \A u \in DOMAIN contributorMetrics.vals :
             LET m == contributorMetrics.vals[u]
                 mine == {e \in Retrieved : RetrievedPR(e).user = u}
             IN  /\ m.newPRsThisWeek =
                      Cardinality({e \in mine :
                         RetrievedPR(e).created_at > lastWeekDate})
                 /\ m.openPRs =
                      Cardinality({e \in mine : IsOpen(RetrievedPR(e))})
                 /\ m.mergedPRsThisWeek =
                      Cardinality({e \in mine :
                         MergedThisWeek(RetrievedPR(e))})
                 /\ m.closedPRsThisWeek =
                      Cardinality({e \in mine :
                         ClosedThisWeek(RetrievedPR(e))})
                 /\ m.totalComments = CommentSum(mine)

\* the fetch of repo1 failed, the details of the first pull request of repo2
\* failed, and the report shows repo2's two authors, the second with the
\* comment of its pull request
C18_Witness ==
  /\ pc = "written"
  /\ weekly.failedRepos = {"repo1"}
  /\ weekly.failedDetails = {<<"repo2", 1>>}
  /\ Len(weekly.allPRs) = 2
  /\ weekly.answered["repo2"][2] = 1
  /\ contributorMetrics.keys = <<"user1", "user2">>
  /\ contributorMetrics.vals["user1"].totalComments = 0
  /\ contributorMetrics.vals["user2"].totalComments = 1
  /\ reportLines.summary[1] = "- Total Active Contributors: 2"

(***************************************************************************)
(* C19  Join before reduce: no contributor record is created or updated    *)
(* until the fetch of every configured repository has settled and the      *)
(* detail fetch of every repository that returned pull requests has        *)
(* settled; and no detail fetch is issued before every fetch of pull       *)
(* requests has settled.                                                   *)
(***************************************************************************)
C19_JoinBeforeReduce ==
  /\ (\E r \in Repos : weekly.detailFetches[r] # "idle") =>
       \A r \in Repos : weekly.prFetches[r] \in {"fulfilled", "rejected"}
  /\ (contributorMetrics # EmptyMap \/ pc \in {"written"}) =>
       \A r \in Repos :
          /\ weekly.prFetches[r] \in {"fulfilled", "rejected"}
          /\ weekly.allReposPRs[r] # <<>> =>
               /\ weekly.detailFetches[r] = "settled"
               /\ Has(weekly.prDetailsByRepo, r)
               /\ weekly.position[r] = Len(weekly.allReposPRs[r])

\* both repositories returned two pull requests, repo2's details settled
\* first, and the report was written
C19_Witness ==
  /\ pc = "written"
  /\ \A r \in Repos : Len(weekly.allReposPRs[r]) = 2
  /\ weekly.prDetailsByRepo.keys = <<"repo2", "repo1">>
  /\ Size(contributorMetrics) = 2

(***************************************************************************)
(* C20  No data race in the fan-out: whatever the order in which the       *)
(* concurrent fetches complete, the joined list is the lists of the        *)
(* repositories in configuration order, every pull request receives the    *)
(* comment count of its own repository's detail even when another          *)
(* repository has a pull request of the same number, and the contributor   *)
(* metrics and the table are those computed from the client's answers      *)
(* alone.                                                                  *)
(***************************************************************************)
\* the lists as the client answered them, joined in configuration order
RECURSIVE AnsweredPRs(_)
AnsweredPRs(k) ==
  IF k = 0 THEN <<>>
  ELSE AnsweredPRs(k - 1) \o weekly.allReposPRs[repositories[k]]

\* the reduction with every pull request given its own repository's answer
RECURSIVE AnsweredMetrics(_, _)
AnsweredMetrics(cm, prs) ==
  IF prs = <<>> THEN cm
  ELSE AnsweredMetrics(
         WeeklyLoopBody(cm,
           [Head(prs) EXCEPT !.created_at = momentOf(@)],
           [ZeroDetail EXCEPT !.totalComments =
              AnsweredComments(Head(prs).repoName, Head(prs).number)],
           lastWeekDate),
         Tail(prs))

C20_OrderIndependent ==
  /\ Joined => weekly.allPRs = AnsweredPRs(Len(repositories))
  /\ pc = "written" =>
       /\ \A i \in 1..Len(weekly.allPRs) :
            LET pr == weekly.allPRs[i]
            IN  DetailFor(weekly.prDetailsByRepo, pr).totalComments =
                  AnsweredComments(pr.repoName, pr.number)
       /\ contributorMetrics = AnsweredMetrics(EmptyMap, weekly.allPRs)
       /\ reportLines =
            WeeklyReport(AnsweredMetrics(EmptyMap, weekly.allPRs))

\* pull request 1 of repo1 (by user1, no comment) and pull request 1 of
\* repo2 (by user2, one comment), the details of repo2 settling first
C20_Witness ==
  /\ pc = "written"
  /\ Len(weekly.allPRs) = 2
  /\ weekly.allPRs[1].repoName = "repo1" /\ weekly.allPRs[1].number = 1
  /\ weekly.allPRs[2].repoName = "repo2" /\ weekly.allPRs[2].number = 1
  /\ weekly.prDetailsByRepo.keys = <<"repo2", "repo1">>
  /\ weekly.failedDetails = {}
  /\ weekly.answered["repo1"][1] = 0
  /\ weekly.answered["repo2"][1] = 1
  /\ contributorMetrics.keys = <<"user1", "user2">>
  /\ contributorMetrics.vals["user1"].totalComments = 0
  /\ contributorMetrics.vals["user2"].totalComments = 1

(***************************************************************************)
(* C21  Empty input: when the fetched list is empty, calculatePRMetrics    *)
(* returns newPRs = mergedPRs = openPRs = 0, both averages 0 and an empty  *)
(* contributor map; generateReport emits the no-activity sentence exactly  *)
(* when the contributor map is empty and the contributors table, one row   *)
(* per contributor, otherwise.                                             *)
(***************************************************************************)
NoActivity == << "No activity in the repository during this period." >>

C21_EmptyInput ==
  /\ (BoundedReturned /\ fetched = 0) =>
       /\ metrics.newPRs = 0 /\ metrics.mergedPRs = 0 /\ metrics.openPRs = 0
       /\ metrics.avgTimeToMerge = Num(0)
       /\ metrics.avgTimeToFirstReview = Num(0)
       /\ metrics.contributors = EmptyMap
  /\ pc = "rendered" =>
       /\ report.body = NoActivity <=> Size(metrics.contributors) = 0
       /\ Size(metrics.contributors) # 0 =>
            /\ report.body = << "## Contributors" >>
            /\ Len(report.rows) = Size(metrics.contributors)
            /\ \A u \in DOMAIN metrics.contributors.vals :
                 Cardinality({i \in 1..Len(report.rows) :
                                report.rows[i][1] = u}) = 1
       /\ Size(metrics.contributors) = 0 => report.rows = <<>>

\* the rendered report of an empty list
C21_Witness ==
  /\ pc = "rendered"
  /\ fetched = 0
  /\ metrics = InitialMetrics
  /\ report.body = NoActivity
  /\ report.summary[4] = "- Average Time to Merge: N/A"

C23_CommentsOverwritten ==
  /\ Looping =>
       \A pr \in BoundedInputs, d \in Details :
          \A u \in Users :
             ContributorOf(After(pr, d).metrics, u).comments =
               IF u = pr.user /\ CreatedInRange(pr, startDate, endDate)
                 THEN d.totalComments
                 ELSE ContributorOf(metrics, u).comments
  /\ BoundedRun =>
       \A u \in Users :
          /\ ContributorOf(metrics, u).comments <= seen.comments[u]
          /\ seen.commented[u] >= 2 =>
               ContributorOf(metrics, u).comments # seen.comments[u]

\* a contributor whose two counted pull requests have one comment each and
\* whose count is 1
C23_Witness ==
  /\ pc = "returned"
  /\ \E u \in DOMAIN metrics.contributors.vals :
       /\ metrics.contributors.vals[u].newPRs = 2
       /\ seen.commented[u] = 2
       /\ seen.comments[u] = 2
       /\ metrics.contributors.vals[u].comments = 1

(***************************************************************************)
(* C24  Bounded mode: a first-review sample is taken only for a pull       *)
(* request counted as new whose detail has reviews > 0, and every sample is*)
(* the fixed 2 hours.  avgTimeToFirstReview is 0 when no counted pull      *)
(* request has a review, as when every detail is the all-zero record, and  *)
(* exactly 2 hours otherwise.                                              *)
(***************************************************************************)
C24_FirstReviewAverage ==
  /\ BoundedRun =>
       /\ reviewedCount = seen.reviewed
       /\ JsEq(totalFirstReviewTime, Num(2 * seen.reviewed))
  /\ Looping =>
       \A pr \in BoundedInputs :
          LET new == After(pr, ZeroDetail)
          IN  /\ new.reviewedCount = reviewedCount
              /\ new.totalFirstReviewTime = totalFirstReviewTime
  /\ BoundedReturned =>
       IF seen.reviewed = 0
         THEN metrics.avgTimeToFirstReview = Num(0)
         ELSE JsEq(metrics.avgTimeToFirstReview, Num(2))
  /\ pc = "rendered" =>
       report.summary[5] =
         IF seen.reviewed = 0 THEN "- Average Time to First Review: N/A"
         ELSE "- Average Time to First Review: 2.0 hours"

\* two counted pull requests of which one has a review: the average is 2
C24_Witness ==
  /\ pc = "rendered"
  /\ seen.inRange = 2
  /\ seen.reviewed = 1
  /\ JsEq(metrics.avgTimeToFirstReview, Num(2))
  /\ report.summary[5] = "- Average Time to First Review: 2.0 hours"

(***************************************************************************)
(* Properties of setupCronJob                                              *)
(***************************************************************************)
CronSettled == pc = "cron" /\ cron.state = "settled"

\* the lines of a text that reference the script
Entries(text) == SelectSeq(text, LAMBDA line : Includes(line, scriptPath))

\* the non-empty lines of a text that do not reference the script
OtherLines(text) ==
  SelectSeq(text, LAMBDA line : line # <<>> /\ ~Includes(line, scriptPath))

NonEmptyLines(text) == {text[i] : i \in 1..Len(text)} \ {<<>>}

(***************************************************************************)
(* C25  setupCronJob never duplicates its entry: for every crontab content *)
(* the crontab written on success has exactly one line that references the *)
(* script path, the new cronCommand; the lines read that do not reference  *)
(* it are preserved in their order; and a second successful call leaves the*)
(* set of non-empty lines the first call left.                             *)
(***************************************************************************)
C25_NoDuplicateEntry ==
  (CronSettled /\ cron.promise = "resolved") =>
    /\ Entries(cron.installed) = << cronCommand >>
    /\ OtherLines(cron.installed) = OtherLines(cron.read.stdout)
    /\ cron.runs >= 2 /\ cron.first # NoCrontab =>
         NonEmptyLines(cron.installed) = NonEmptyLines(cron.first)

(***************************************************************************)
(* C26  setupCronJob error protocol: a failed read whose stderr lacks      *)
(* 'no crontab' rejects with the read error after exactly one command; a   *)
(* failed read with 'no crontab' in stderr is an empty crontab and the     *)
(* write proceeds; a failed write rejects with the write error; otherwise  *)
(* the promise resolves.  The promise settles exactly once, and the write  *)
(* is issued only after the read completed.                                *)
(***************************************************************************)
NoCrontabFor(out) ==
  \E i \in 1..Len(out.stderr) : out.stderr[i] = "no crontab"

C26_ErrorProtocol ==
  pc = "cron" =>
    /\ cron.settles = (IF cron.state = "settled" THEN 1 ELSE 0)
    /\ cron.state \in {"reading", "writing"} => cron.promise = "pending"
    /\ cron.state = "reading" => cron.execs = << "crontab -l" >>
    /\ cron.state = "writing" => cron.execs = << "crontab -l", "crontab -" >>
    /\ cron.state = "settled" =>
         IF cron.read.error /\ ~NoCrontabFor(cron.read)
           THEN /\ cron.promise = "rejected"
                /\ cron.reason = cron.read.message
                /\ cron.execs = << "crontab -l" >>
           ELSE /\ cron.execs = << "crontab -l", "crontab -" >>
                /\ cron.read.error => cron.newCrontab = << cronCommand, <<>> >>
                /\ IF cron.write.error
                     THEN /\ cron.promise = "rejected"
                          /\ cron.reason = cron.write.message
                     ELSE cron.promise = "resolved"

\* a call that found no crontab for the user and installed the entry alone
C26_Witness ==
  /\ CronSettled
  /\ cron.read.error
  /\ NoCrontabFor(cron.read)
  /\ cron.promise = "resolved"
  /\ cron.installed = << cronCommand, <<>>, <<>> >>

(***************************************************************************)
(* C27  A partially failed detail fetch is discarded as a whole: when one  *)
(* of the three requests of a pull request fails and the other two succeed,*)
(* the detail of the pull request is the all-zero record; the counts the   *)
(* successful requests answered are not kept.                              *)
(***************************************************************************)
C27_PartialFailureDiscarded ==
  detailsCall.variant = "sequential" =>
    /\ \A n \in detailsCall.partial :
         detailsCall.details.vals[n] = ZeroDetail
    /\ FetchingDetails =>
         \A i \in MayComplete(detailsCall) :
            \A comments \in CommentLists, reviewComments \in CommentLists,
               reviews \in ReviewLists :
               LET failures == Bump(~comments.ok) + Bump(~reviewComments.ok)
                                 + Bump(~reviews.ok)
                   record == Completed(detailsCall, i, comments,
                                       reviewComments, reviews)
                               .details.vals[detailsCall.prNumbers[i]]
               IN  failures = 1 =>
                     /\ record.totalComments = 0
                     /\ record.reviewComments = 0
                     /\ record.discussionComments = 0
                     /\ record.reviews = 0
                     /\ record.approvals = 0
                     /\ record.changesRequested = 0

\* the map returned for a batch whose second pull request had a request fail
\* and another answer a non-empty list, and whose first has its counts
C27_Witness ==
  /\ detailsCall.state = "returned"
  /\ detailsCall.variant = "sequential"
  /\ detailsCall.prNumbers = <<1, 2>>
  /\ detailsCall.partial = {2}
  /\ detailsCall.failed = {2}
  /\ detailsCall.details.vals[2] = ZeroDetail
  /\ detailsCall.details.vals[1].totalComments > 0

(***************************************************************************)
(* C28  Rolling mode truncates the merge time of each pull request before  *)
(* summing: a pull request merged after the window start adds the whole    *)
(* hours floor(mergedAt - createdAt) to totalMergeTime of its author, any   *)
(* other pull request adds nothing, so totalMergeTime is a whole number of *)
(* hours; bounded mode adds the fractional hours.  Two pull requests merged*)
(* 90 minutes after creation average 1.0 hours in rolling mode and 1.5 in  *)
(* bounded mode.                                                           *)
(***************************************************************************)
C28_TruncatedBeforeSumming ==
  /\ Reducing =>
       \A pr \in PullRequests, d \in RollingDetails :
          AfterWeekly(pr, d).vals[pr.user].totalMergeTime =
            MetricsOf(contributorMetrics, pr.user).totalMergeTime
              + (IF MergedThisWeek(pr)
                   THEN (pr.merged_at - pr.created_at) \div MinutesPerHour
                   ELSE 0)
  /\ pc \in {"reduce", "written"} =>
       \A u \in DOMAIN contributorMetrics.vals :
          LET m == contributorMetrics.vals[u]
          IN  /\ m.totalMergeTime \in Nat
              /\ MinutesPerHour * m.totalMergeTime <= seen[u].mergeMinutes
              /\ seen[u].fractional > 0 =>
                   MinutesPerHour * m.totalMergeTime < seen[u].mergeMinutes
  /\ pc = "written" =>
       \A i \in 1..Len(reportLines.rows) :
          LET u == reportLines.rows[i][1]
          IN  (/\ contributorMetrics.vals[u].mergedPRCount = 2
               /\ contributorMetrics.vals[u].totalMergeTime = 2) =>
                reportLines.rows[i][6] = "1.0"
  /\ BoundedRun =>
       JsEq(totalMergeTime,
            [num |-> seen.mergeMinutes, den |-> MinutesPerHour])
  /\ (pc = "rendered" /\ mergedCount = 2 /\ seen.mergeMinutes = 180) =>
       report.summary[4] = "- Average Time to Merge: 1.5 hours"

\* a contributor of two pull requests merged this week, neither after a
\* whole number of hours and 180 minutes in sum: the table says 1.0
C28_Witness ==
  /\ pc = "written"
  /\ \E i \in 1..Len(reportLines.rows) :
       LET u == reportLines.rows[i][1]
       IN  /\ contributorMetrics.vals[u].mergedPRCount = 2
           /\ seen[u].fractional = 2
           /\ seen[u].mergeMinutes = 180
           /\ contributorMetrics.vals[u].totalMergeTime = 2
           /\ reportLines.rows[i][6] = "1.0"

(***************************************************************************)
(* C29  Bounded mode, for every input: newPRs, mergedPRs and openPRs each  *)
(* equal the sum of the same field over the entries of the contributor map;*)
(* a key is in the contributor map if and only if its author has a pull    *)
(* request created in the range, and every contributor has newPRs >= 1.    *)
(***************************************************************************)
C29_GlobalEqualsContributorSums ==
  BoundedRun =>
    LET authors == DOMAIN metrics.contributors.vals
        vals == metrics.contributors.vals
    IN  /\ metrics.newPRs = FieldSum(authors, vals, "newPRs")
        /\ metrics.mergedPRs = FieldSum(authors, vals, "mergedPRs")
        /\ metrics.openPRs = FieldSum(authors, vals, "openPRs")
        /\ authors = seen.authors
        /\ \A u \in authors : vals[u].newPRs >= 1

(***************************************************************************)
(* C30  Termination of a rolling run: when every call of the retrieval     *)
(* client settles, generateWeeklyPRReport ends, in one of two ways: the    *)
(* report written exactly once with no failure exit, or exit status 1 with *)
(* no report written.  While a call is pending the run has neither written*)
(* a report nor ended: a call that never settles blocks it.                *)
(***************************************************************************)
CallPending ==
  \/ \E r \in Repos : weekly.prFetches[r] = "pending"
  \/ \E r \in Repos :
       /\ weekly.detailFetches[r] = "pending"
       /\ weekly.position[r] < Len(NumbersOf(weekly.allPRs, r))

Terminated == pc \in {"written", "exited"}

OneOutcome ==
  /\ weekly.writes <= 1
  /\ weekly.writes = 1 <=> pc = "written"
  /\ weekly.exitCode = 1 <=> pc = "exited"
  /\ pc = "written" => reportLines # NoWeeklyReport /\ weekly.exitCode = 0
  /\ pc = "exited" => reportLines = NoWeeklyReport
  /\ CallPending => ~Terminated /\ reportLines = NoWeeklyReport

====
